---- MODULE Spec2Model ----
(***************************************************************************)
(* Model of the draft document engine of tkedit-backend:                   *)
(* app/core/script_file.py (Script_material, Script_file) and the service  *)
(* code around it.  A Script_file is a plain in-memory object; every       *)
(* public method is one atomic action here.  Python exceptions are the     *)
(* "err" field of an operation's result; "ok" means the call returned.     *)
(***************************************************************************)
EXTENDS Integers, Sequences, FiniteSets, TLC

\* ------------------------------------------------------------------ bounds
\* successful add_track calls plus segments created, over a run
MaxOps == 3
\* largest start time, and largest duration, fed to an operation
MaxTime == 1
\* attachment objects (transition, effect, mask, ...) the caller holds per class
MaxObj == 1
\* distinct material ids the caller uses
MaxMat == 2

\* --------------------------------------------------------------- optionals
\* Python's None / a present value
None == <<>>
Some(x) == <<x>>

\* ------------------------------------------------------------------- types
Track_types == {"video", "audio", "effect", "filter", "sticker", "text"}

Segment_classes ==
  {"Video_segment", "Audio_segment", "Effect_segment", "Filter_segment",
   "Sticker_segment", "Text_segment"}

\* Track_type.<member>.value.segment_type: the one segment class a track accepts
accept_segment_type(track_type) ==
  CASE track_type = "video" -> "Video_segment"
    [] track_type = "audio" -> "Audio_segment"
    [] track_type = "effect" -> "Effect_segment"
    [] track_type = "filter" -> "Filter_segment"
    [] track_type = "sticker" -> "Sticker_segment"
    [] track_type = "text" -> "Text_segment"

\* Track_type.<member>.value.render_index: the base z-order of a track kind
base_render_index(track_type) ==
  CASE track_type = "video" -> 0
    [] track_type = "audio" -> 0
    [] track_type = "effect" -> 10000
    [] track_type = "filter" -> 11000
    [] track_type = "sticker" -> 14000
    [] track_type = "text" -> 15000

\* --------------------------------------------------------------- utilities
Max(a, b) == IF a > b THEN a ELSE b

\* number of positions of s holding x
Count(s, x) == Cardinality({i \in DOMAIN s : s[i] = x})

NoDup(s) == \A i, j \in DOMAIN s : i # j => s[i] # s[j]

\* ---------------------------------------------------------------- objects
\* An object identity (a uuid): the class that minted it and a serial.
Uuid(cls, n) == <<cls, n>>

\* A segment as the core library builds it, before it is put on a track.
\* Fields a class does not have stay None / empty.
Segment(cls, n, start, dur) ==
  [segment_id |-> Uuid("segment", n), cls |-> cls,
   start |-> start, duration |-> dur,
   material_instance |-> None,
   animations_instance |-> None, effects |-> <<>>, filters |-> <<>>,
   mask |-> None, transition |-> None, background_filling |-> None,
   fade |-> None, bubble |-> None, effect |-> None,
   effect_inst |-> None, material |-> None,
   text |-> <<>>, style |-> None, clip_settings |-> None,
   speed |-> Uuid("speed", n)]

SegEnd(seg) == seg.start + seg.duration

\* A bug the overlap test could have: the ranges are taken as closed, so
\* ranges that only touch count as overlapping.
overlaps_closed(a, da, b, db) == a <= b + db /\ b <= a + da

\* two timeranges [a, a+da) and [b, b+db)
overlaps(a, da, b, db) == a < b + db /\ b < a + da

\* ------------------------------------------------------- Script_material
\* Script_material.__init__: every collection empty
Script_material ==
  [audios |-> <<>>, videos |-> <<>>, stickers |-> <<>>, texts |-> <<>>,
   audio_effects |-> <<>>, audio_fades |-> <<>>, animations |-> <<>>,
   video_effects |-> <<>>, speeds |-> <<>>, masks |-> <<>>,
   transitions |-> <<>>, filters |-> <<>>, canvases |-> <<>>]

\* the collection __contains__ searches for an item of class cls
CollectionOf(cls) ==
  CASE cls = "Video_material" -> "videos"
    [] cls = "Audio_material" -> "audios"
    [] cls = "Audio_fade" -> "audio_fades"
    [] cls = "Audio_effect" -> "audio_effects"
    [] cls = "Segment_animations" -> "animations"
    [] cls = "Video_effect" -> "video_effects"
    [] cls = "Transition" -> "transitions"
    [] cls = "Filter" -> "filters"

\* the identity field of an entry of collection coll: a material is a record
\* [material_id, cls, tag], every other entry is known by its own uuid
EntryId(coll, entry) ==
  IF coll \in {"videos", "audios"} THEN entry.material_id ELSE entry

\* the identities held by collection coll, in order
Ids(m, coll) == [i \in DOMAIN m[coll] |-> EntryId(coll, m[coll][i])]

\* Script_material.__contains__ for an item of class cls with identity id
Contains(m, cls, id) ==
  \E i \in DOMAIN m[CollectionOf(cls)] : Ids(m, CollectionOf(cls))[i] = id

\* `if x not in self.materials: self.materials.<coll>.append(x)`, x a uuid
AppendIfAbsent(m, cls, item) ==
  IF Contains(m, cls, item) THEN m
  ELSE [m EXCEPT ![CollectionOf(cls)] = Append(@, item)]

\* A bug the fan-out could have: an optional attachment is appended without
\* asking whether the registry holds it.
AppendOptAlways(m, cls, opt) ==
  IF opt = None THEN m ELSE [m EXCEPT ![CollectionOf(cls)] = Append(@, opt[1])]

\* the same, for an optional attachment (`x is not None and x not in ...`)
AppendOptIfAbsent(m, cls, opt) ==
  IF opt = None THEN m ELSE AppendIfAbsent(m, cls, opt[1])

\* `self.materials.<coll>.append(x)` for an optional attachment, no check
AppendOpt(m, coll, opt) ==
  IF opt = None THEN m ELSE [m EXCEPT ![coll] = Append(@, opt[1])]

\* `for x in items: if x not in self.materials: ...append(x)`
RECURSIVE AppendEachIfAbsent(_, _, _)
AppendEachIfAbsent(m, cls, items) ==
  IF items = <<>> THEN m
  ELSE AppendEachIfAbsent(AppendIfAbsent(m, cls, Head(items)), cls, Tail(items))

\* ----------------------------------------------------------- Script_file
\* The document as a value: what the pure operators below transform.
\* nextId is the number of uuids minted for segments so far.
Script_file ==
  [tracks |-> <<>>, duration |-> 0, materials |-> Script_material, nextId |-> 0]

Raise(err, d) == [err |-> err, d |-> d]
Return(d) == [err |-> "ok", d |-> d]

\* A bug add_material could have: no `in self.materials` test.
add_material_always(d, mat) ==
  IF mat.cls \notin {"Video_material", "Audio_material"} THEN Raise("TypeError", d)
  ELSE Return([d EXCEPT !.materials[CollectionOf(mat.cls)] = Append(@, mat)])

\* Script_file.add_material; mat = [material_id, cls, tag]
add_material(d, mat) ==
  IF mat.cls \notin {"Video_material", "Audio_material"} THEN Raise("TypeError", d)
  ELSE IF Contains(d.materials, mat.cls, mat.material_id) THEN Return(d)
  ELSE Return([d EXCEPT !.materials[CollectionOf(mat.cls)] = Append(@, mat)])

TrackNames(tracks) == {tracks[i].name : i \in DOMAIN tracks}
TrackTypes(tracks) == {tracks[i].track_type : i \in DOMAIN tracks}

\* position of the track called name (names are the dict's keys)
TrackIndex(tracks, name) == CHOOSE i \in DOMAIN tracks : tracks[i].name = name

\* Track(track_type, name, render_index, mute)
Track(track_type, name, render_index, mute) ==
  [track_type |-> track_type, name |-> name, render_index |-> render_index,
   mute |-> mute, segments |-> <<>>]

\* A bug add_track could have: a track may be left unnamed although a track
\* of its kind exists, as long as the kind's own name is free.
add_track_any_kind(d, track_type, track_name, mute, relative_index, absolute_index) ==
  LET name == IF track_name = None THEN track_type ELSE track_name[1]
      render_index == IF absolute_index # None THEN absolute_index[1]
                      ELSE base_render_index(track_type) + relative_index
  IN IF name \in TrackNames(d.tracks) THEN Raise("NameError", d)
     ELSE Return([d EXCEPT !.tracks =
                    Append(@, Track(track_type, name, render_index, mute))])

\* A bug add_track could have: the name is not checked against the existing
\* tracks, so `self.tracks[track_name] = Track(...)` replaces the dict entry
\* of that name.
add_track_overwrite(d, track_type, track_name, mute, relative_index, absolute_index) ==
  LET name == IF track_name = None THEN track_type ELSE track_name[1]
      render_index == IF absolute_index # None THEN absolute_index[1]
                      ELSE base_render_index(track_type) + relative_index
  IN IF track_name = None /\ track_type \in TrackTypes(d.tracks)
       THEN Raise("NameError", d)
     ELSE IF name \in TrackNames(d.tracks)
       THEN Return([d EXCEPT !.tracks[TrackIndex(d.tracks, name)] =
                      Track(track_type, name, render_index, mute)])
     ELSE Return([d EXCEPT !.tracks =
                    Append(@, Track(track_type, name, render_index, mute))])

\* A bug add_track could have: relative_index is added to absolute_index too.
add_track_relative_kept(d, track_type, track_name, mute, relative_index, absolute_index) ==
  LET name == IF track_name = None THEN track_type ELSE track_name[1]
      render_index == IF absolute_index # None THEN absolute_index[1] + relative_index
                      ELSE base_render_index(track_type) + relative_index
  IN IF track_name = None /\ track_type \in TrackTypes(d.tracks)
       THEN Raise("NameError", d)
     ELSE IF name \in TrackNames(d.tracks) THEN Raise("NameError", d)
     ELSE Return([d EXCEPT !.tracks =
                    Append(@, Track(track_type, name, render_index, mute))])

\* Script_file.add_track; track_name and absolute_index are optionals
add_track(d, track_type, track_name, mute, relative_index, absolute_index) ==
  LET name == IF track_name = None THEN track_type ELSE track_name[1]
      render_index == IF absolute_index # None THEN absolute_index[1]
                      ELSE base_render_index(track_type) + relative_index
  IN IF track_name = None /\ track_type \in TrackTypes(d.tracks)
       THEN Raise("NameError", d)
     ELSE IF name \in TrackNames(d.tracks) THEN Raise("NameError", d)
     ELSE Return([d EXCEPT !.tracks =
                    Append(@, Track(track_type, name, render_index, mute))])

\* Script_file._get_track: the index of the target track, or the error
Accepting(tracks, segment_type) ==
  {i \in DOMAIN tracks : accept_segment_type(tracks[i].track_type) = segment_type}

\* A bug _get_track could have: with several accepting tracks and no name
\* it takes the first instead of raising.
get_track_first(trs, segment_type, track_name) ==
  IF track_name # None
    THEN IF track_name[1] \notin TrackNames(trs)
           THEN [err |-> "NameError", idx |-> 0]
         ELSE [err |-> "ok", idx |-> TrackIndex(trs, track_name[1])]
  ELSE IF Cardinality(Accepting(trs, segment_type)) = 0
    THEN [err |-> "NameError", idx |-> 0]
  ELSE [err |-> "ok",
        idx |-> CHOOSE i \in Accepting(trs, segment_type) :
                  \A j \in Accepting(trs, segment_type) : i <= j]

get_track(trs, segment_type, track_name) ==
  IF track_name # None
    THEN IF track_name[1] \notin TrackNames(trs)
           THEN [err |-> "NameError", idx |-> 0]
         ELSE [err |-> "ok", idx |-> TrackIndex(trs, track_name[1])]
  ELSE IF Cardinality(Accepting(trs, segment_type)) = 0
    THEN [err |-> "NameError", idx |-> 0]
  ELSE IF Cardinality(Accepting(trs, segment_type)) > 1
    THEN [err |-> "NameError", idx |-> 0]
  ELSE [err |-> "ok",
        idx |-> CHOOSE i \in Accepting(trs, segment_type) :
                  \A j \in Accepting(trs, segment_type) : i <= j]

\* Track.add_segment (app/core/track.py): kind check, overlap check, append
Track_add_segment(track, seg) ==
  IF seg.cls # accept_segment_type(track.track_type)
    THEN [err |-> "TypeError", track |-> track]
  ELSE IF \E i \in DOMAIN track.segments :
            overlaps(seg.start, seg.duration,
                     track.segments[i].start, track.segments[i].duration)
    THEN [err |-> "SegmentOverlap", track |-> track]
  ELSE [err |-> "ok", track |-> [track EXCEPT !.segments = Append(@, seg)]]

\* add_segment, lines 341-386: the registry fan-out for one segment
RegisterAttachments(m, seg) ==
  CASE seg.cls = "Video_segment" ->
         LET m1 == AppendOptIfAbsent(m, "Segment_animations", seg.animations_instance)
             m2 == AppendEachIfAbsent(m1, "Video_effect", seg.effects)
             m3 == AppendEachIfAbsent(m2, "Filter", seg.filters)
             m4 == AppendOpt(m3, "masks", seg.mask)
             m5 == AppendOptIfAbsent(m4, "Transition", seg.transition)
             m6 == AppendOpt(m5, "canvases", seg.background_filling)
         IN [m6 EXCEPT !.speeds = Append(@, seg.speed)]
    [] seg.cls = "Sticker_segment" ->
         [m EXCEPT !.stickers = Append(@, seg.segment_id)]
    [] seg.cls = "Audio_segment" ->
         LET m1 == AppendOptIfAbsent(m, "Audio_fade", seg.fade)
             m2 == AppendEachIfAbsent(m1, "Audio_effect", seg.effects)
         IN [m2 EXCEPT !.speeds = Append(@, seg.speed)]
    [] seg.cls = "Text_segment" ->
         LET m1 == AppendOptIfAbsent(m, "Segment_animations", seg.animations_instance)
             m2 == AppendOpt(m1, "filters", seg.bubble)
         IN AppendOpt(m2, "filters", seg.effect)
    [] OTHER -> m

\* A bug add_segment could have: the segment is appended to the target's
\* list directly, without Track.add_segment's checks.
insert_and_extend_unchecked(d, idx, seg) ==
  Return([d EXCEPT !.tracks[idx].segments = Append(@, seg),
                   !.duration = Max(@, SegEnd(seg))])

\* A bug add_segment could have: duration is assigned the new segment's end.
insert_and_extend_assign(d, idx, seg) ==
  LET r == Track_add_segment(d.tracks[idx], seg) IN
  IF r.err # "ok" THEN Raise(r.err, d)
  ELSE Return([d EXCEPT !.tracks[idx] = r.track, !.duration = SegEnd(seg)])

\* A bug add_segment could have: duration is updated before the track has
\* accepted the segment.
insert_and_extend_early(d, idx, seg) ==
  LET r == Track_add_segment(d.tracks[idx], seg) IN
  IF r.err # "ok" THEN Raise(r.err, [d EXCEPT !.duration = Max(@, SegEnd(seg))])
  ELSE Return([d EXCEPT !.tracks[idx] = r.track, !.duration = Max(@, SegEnd(seg))])

\* `target.add_segment(segment); self.duration = max(self.duration, end)`:
\* the two statements add_segment, add_effect and add_filter share
insert_and_extend(d, idx, seg) ==
  LET r == Track_add_segment(d.tracks[idx], seg) IN
  IF r.err # "ok" THEN Raise(r.err, d)
  ELSE Return([d EXCEPT !.tracks[idx] = r.track, !.duration = Max(@, SegEnd(seg))])

\* Script_file.add_segment
add_segment(d, seg, track_name) ==
  LET g == get_track(d.tracks, seg.cls, track_name) IN
  IF g.err # "ok" THEN Raise(g.err, d)
  ELSE
    LET r == insert_and_extend(d, g.idx, seg) IN
    IF r.err # "ok" THEN r
    ELSE
      LET d1 == [r.d EXCEPT !.materials = RegisterAttachments(@, seg)]
      IN IF seg.cls \in {"Video_segment", "Audio_segment"}
           THEN add_material(d1, seg.material_instance[1])
         ELSE Return(d1)

\* Effect_segment / Video_effect constructor: at most as many params as the
\* effect type has, each absent or within 0..100
params_valid(effect, params) ==
  \/ params = None
  \/ /\ Len(params[1]) <= effect.params
     /\ \A k \in DOMAIN params[1] :
          params[1][k] = None \/ (params[1][k][1] >= 0 /\ params[1][k][1] <= 100)

\* A bug add_effect could have: the segment is put on the track before its
\* parameters are looked at.
add_effect_insert_first(d, effect, start, dur, track_name, params) ==
  LET g == get_track(d.tracks, "Effect_segment", track_name) IN
  IF g.err # "ok" THEN Raise(g.err, d)
  ELSE
    LET n == d.nextId + 1
        segment == [Segment("Effect_segment", n, start, dur)
                      EXCEPT !.effect_inst = Some(Uuid("effect_inst", n))]
        r == insert_and_extend(d, g.idx, segment)
    IN IF r.err # "ok" THEN r
       ELSE IF ~params_valid(effect, params) THEN Raise("ValueError", r.d)
       ELSE Return([r.d EXCEPT !.materials = AppendIfAbsent(@, "Video_effect",
                                                            segment.effect_inst[1]),
                               !.nextId = n])

\* Script_file.add_effect: a standalone Effect_segment with its own Video_effect
add_effect(d, effect, start, dur, track_name, params) ==
  LET g == get_track(d.tracks, "Effect_segment", track_name) IN
  IF g.err # "ok" THEN Raise(g.err, d)
  ELSE IF ~params_valid(effect, params) THEN Raise("ValueError", d)
  ELSE
    LET n == d.nextId + 1
        segment == [Segment("Effect_segment", n, start, dur)
                      EXCEPT !.effect_inst = Some(Uuid("effect_inst", n))]
        r == insert_and_extend(d, g.idx, segment)
    IN IF r.err # "ok" THEN r
       ELSE Return([r.d EXCEPT !.materials = AppendIfAbsent(@, "Video_effect",
                                                            segment.effect_inst[1]),
                               !.nextId = n])

\* ------------------------------------------------------ filter intensity
\* A Python float that is a whole number of percent, or one unit in the last
\* place above or below it
Percent(i) == [whole |-> i, ulps |-> 0]

\* `intensity / 100.0` (line 441): the double nearest to that many
\* hundredths.  In IEEE arithmetic a percentage one ulp off a whole number
\* between 0 and 100 divides to the same double as the whole number.
unit_value(intensity) == [hundredths |-> intensity.whole]

\* the hundredths whose double, times 100, is one ulp above the whole number
RoundsUp == {7, 14, 28, 55, 56}

\* the hundredths whose double, times 100, is one ulp below the whole number
RoundsDown == {29, 57, 58}

\* A bug from_dict could have: the stored value is not read and the default
\* 1.0 is used.
percent_value_default(value) == Percent(100)

\* `filter_data.get("value", 1.0) * 100` (line 314): the double product
percent_value(value) ==
  [whole |-> value.hundredths,
   ulps |-> IF value.hundredths \in RoundsUp THEN 1
            ELSE IF value.hundredths \in RoundsDown THEN -1 ELSE 0]

\* a Filter object: its class, its serial and the value it stores
Filter(cls, n, value) == <<cls, n, value>>

\* the id of a Filter object, as extra_material_refs lists it
filter_id(f) == <<f[1], f[2]>>

\* Script_file.add_filter: a standalone Filter_segment with its own Filter
add_filter(d, start, dur, track_name, intensity) ==
  LET g == get_track(d.tracks, "Filter_segment", track_name) IN
  IF g.err # "ok" THEN Raise(g.err, d)
  ELSE
    LET n == d.nextId + 1
        segment == [Segment("Filter_segment", n, start, dur)
                      EXCEPT !.material =
                        Some(Filter("filter_material", n, unit_value(intensity)))]
        r == insert_and_extend(d, g.idx, segment)
    IN IF r.err # "ok" THEN r
       ELSE Return([r.d EXCEPT !.materials.filters = Append(@, segment.material[1]),
                               !.nextId = n])

\* ------------------------------------------------------------------ dumps
\* Text_segment.export_material: the text record of one segment
export_material(seg) ==
  [id |-> Uuid("text_material", seg.segment_id[2]), text |-> seg.text,
   style |-> seg.style]

\* dumps, lines 535-540: one record per Text_segment of every text track,
\* tracks in creation order, segments in list order
RECURSIVE TextsOf(_)
TextsOf(trs) ==
  IF trs = <<>> THEN <<>>
  ELSE LET t == Head(trs)
           own == IF accept_segment_type(t.track_type) = "Text_segment"
                    THEN SelectSeq(t.segments, LAMBDA g : g.cls = "Text_segment")
                  ELSE <<>>
       IN [k \in DOMAIN own |-> export_material(own[k])] \o TextsOf(Tail(trs))

\* A bug dumps could have: the records of earlier exports are kept.
rebuild_texts_keep(d) ==
  [d EXCEPT !.materials.texts = @ \o TextsOf(d.tracks)]

\* `self.materials.texts = []` and the loop that refills it
rebuild_texts(d) ==
  [d EXCEPT !.materials.texts = TextsOf(d.tracks)]

\* A bug the export could have: an unstable sort, here one that puts a track
\* before the tracks of equal render_index.
RECURSIVE insert_sorted_before(_, _)
insert_sorted_before(srt, t) ==
  IF srt = <<>> THEN <<t>>
  ELSE IF Head(srt).render_index < t.render_index
    THEN <<Head(srt)>> \o insert_sorted_before(Tail(srt), t)
  ELSE <<t>> \o srt

\* list.sort(key=render_index) is stable: track t goes after every track of
\* sorted list srt whose render_index is not larger
RECURSIVE insert_sorted(_, _)
insert_sorted(srt, t) ==
  IF srt = <<>> THEN <<t>>
  ELSE IF Head(srt).render_index <= t.render_index
    THEN <<Head(srt)>> \o insert_sorted(Tail(srt), t)
  ELSE <<t>> \o srt

\* track_list.sort(key=lambda track: track.render_index)
RECURSIVE sort_tracks(_)
sort_tracks(trs) ==
  IF trs = <<>> THEN <<>>
  ELSE insert_sorted(sort_tracks(SubSeq(trs, 1, Len(trs) - 1)), trs[Len(trs)])

\* Video_material.export_json: the keys from_dict reads
Video_material_export_json(mat) == [id |-> mat.material_id, path |-> mat.tag]

\* A bug export_json could have: only the collections the engine fills are
\* written.
export_json_filled_only(m) ==
  [
   audio_effects |-> m.audio_effects,
   audio_fades |-> m.audio_fades,
   audios |-> m.audios,
   canvases |-> m.canvases,
   effects |-> m.filters,
   masks |-> m.masks,
   material_animations |-> m.animations,
   speeds |-> m.speeds,
   stickers |-> m.stickers,
   texts |-> m.texts,
   transitions |-> m.transitions,
   video_effects |-> m.video_effects,
   videos |-> [k \in DOMAIN m.videos |-> Video_material_export_json(m.videos[k])]]

\* Script_material.export_json: the materials object, one array per key; the
\* elements stand for their own export_json
export_json(m) ==
  [
   ai_translates |-> <<>>,
   audio_balances |-> <<>>,
   audio_effects |-> m.audio_effects,
   audio_fades |-> m.audio_fades,
   audio_track_indexes |-> <<>>,
   audios |-> m.audios,
   beats |-> <<>>,
   canvases |-> m.canvases,
   chromas |-> <<>>,
   color_curves |-> <<>>,
   digital_humans |-> <<>>,
   drafts |-> <<>>,
   effects |-> m.filters,
   flowers |-> <<>>,
   green_screens |-> <<>>,
   handwrites |-> <<>>,
   hsl |-> <<>>,
   images |-> <<>>,
   log_color_wheels |-> <<>>,
   loudnesses |-> <<>>,
   manual_deformations |-> <<>>,
   masks |-> m.masks,
   material_animations |-> m.animations,
   material_colors |-> <<>>,
   multi_language_refs |-> <<>>,
   placeholders |-> <<>>,
   plugin_effects |-> <<>>,
   primary_color_wheels |-> <<>>,
   realtime_denoises |-> <<>>,
   shapes |-> <<>>,
   smart_crops |-> <<>>,
   smart_relights |-> <<>>,
   sound_channel_mappings |-> <<>>,
   speeds |-> m.speeds,
   stickers |-> m.stickers,
   tail_leaders |-> <<>>,
   text_templates |-> <<>>,
   texts |-> m.texts,
   time_marks |-> <<>>,
   transitions |-> m.transitions,
   video_effects |-> m.video_effects,
   video_trackings |-> <<>>,
   videos |-> [k \in DOMAIN m.videos |-> Video_material_export_json(m.videos[k])],
   vocal_beautifys |-> <<>>,
   vocal_separations |-> <<>>]

\* a segment's export_json: the keys from_dict reads
Segment_export_json(seg) ==
  [id |-> seg.segment_id,
   type |-> CASE seg.cls = "Video_segment" -> "video"
              [] seg.cls = "Audio_segment" -> "audio"
              [] seg.cls = "Text_segment" -> "text"
              [] seg.cls = "Effect_segment" -> "effect"
              [] seg.cls = "Filter_segment" -> "filter"
              [] OTHER -> "sticker",
   material_id |-> IF seg.material_instance = None THEN None
                   ELSE Some(seg.material_instance[1].material_id),
   target_timerange |-> [start |-> seg.start, duration |-> seg.duration],
   material_animation |-> seg.animations_instance,
   extra_material_refs |-> [k \in DOMAIN seg.filters |-> filter_id(seg.filters[k])]]

\* Track.export_json: lowercase type name, render_index, extra_info.name and
\* the segments
Track_export_json(t) ==
  [type |-> t.track_type, render_index |-> Some(t.render_index),
   extra_info |-> [name |-> Some(t.name)],
   segments |-> [k \in DOMAIN t.segments |-> Segment_export_json(t.segments[k])]]

\* A bug dumps could have: the track list is sorted in place, so the export
\* reorders the tracks of the Document.
dumps_sort_in_place(d) ==
  LET d1 == [rebuild_texts(d) EXCEPT !.tracks = sort_tracks(@)]
  IN [err |-> "ok", d |-> d1,
      content |-> [duration |-> d1.duration,
                   texts |-> d1.materials.texts,
                   materials |-> export_json(d1.materials),
                   tracks |-> [k \in DOMAIN d1.tracks |->
                                 Track_export_json(d1.tracks[k])]]]

\* Script_file.dumps: the document after the call and the exported content
dumps(d) ==
  LET d1 == rebuild_texts(d)
  IN [err |-> "ok", d |-> d1,
      content |-> [duration |-> d1.duration,
                   texts |-> d1.materials.texts,
                   materials |-> export_json(d1.materials),
                   tracks |-> [k \in DOMAIN d1.tracks |->
                                 Track_export_json(sort_tracks(d1.tracks)[k])]]]

\* Script_file.dump: dumps written to the draft file; the document it leaves
dump(d) == dumps(d).d

\* -------------------------------------------------------------- from_dict
\* Track_type[name.upper()] (line 269): the kind a type name stands for
Track_type_of(name) == IF name \in Track_types THEN Some(name) ELSE None

\* the new Filter objects segment.add_filter makes for the ids of refs that
\* filter_map knows (lines 309-315), numbered from n
RECURSIVE readd_filters(_, _, _)
readd_filters(refs, filter_map, n) ==
  IF refs = <<>> THEN <<>>
  ELSE IF \E filter_data \in filter_map : filter_id(filter_data) = Head(refs)
    THEN LET filter_data == CHOOSE e \in filter_map : filter_id(e) = Head(refs)
         IN <<Filter("Filter", n, unit_value(percent_value(filter_data[3])))>>
              \o readd_filters(Tail(refs), filter_map, n + 1)
  ELSE readd_filters(Tail(refs), filter_map, n)

\* the Video_segment lines 289-315 build from segment_data sd and the record
\* video_info of its material
rebuild_video_segment(sd, video_info, data, n) ==
  LET animation_map == {data.materials.material_animations[k] :
                          k \in DOMAIN data.materials.material_animations}
      filter_map == {data.materials.effects[k] : k \in
                       {j \in DOMAIN data.materials.effects :
                          data.materials.effects[j][1] \in {"Filter", "filter_material"}}}
      video_mat == [material_id |-> sd.material_id[1], cls |-> "Video_material",
                    tag |-> video_info.path]
  IN [Segment("Video_segment", n, sd.target_timerange.start,
              sd.target_timerange.duration)
        EXCEPT !.material_instance = Some(video_mat),
               !.animations_instance =
                 IF sd.material_animation # None
                      /\ sd.material_animation[1] \in animation_map
                   THEN Some(Uuid("Segment_animations", n)) ELSE None,
               !.filters = readd_filters(sd.extra_material_refs, filter_map, n)]

\* A bug the segment loop could have: a segment that cannot be rebuilt ends
\* the loop over its track.
RECURSIVE load_segments_until_missing(_, _, _, _, _)
load_segments_until_missing(instance, track_name, segs, data, exists) ==
  IF segs = <<>> THEN Return(instance)
  ELSE
    LET sd == Head(segs)
        found == SelectSeq(data.materials.videos, LAMBDA v : Some(v.id) = sd.material_id)
    IN IF sd.type # "video"
         THEN load_segments_until_missing(instance, track_name, Tail(segs), data, exists)
       ELSE IF found = <<>> THEN Return(instance)
       ELSE IF found[1].path \notin exists THEN Return(instance)
       ELSE
         LET n == instance.nextId + 1
             r == add_segment([instance EXCEPT !.nextId = n],
                              rebuild_video_segment(sd, found[1], data, n), track_name)
         IN IF r.err # "ok" THEN Raise(r.err, instance)
            ELSE load_segments_until_missing(r.d, track_name, Tail(segs), data, exists)

\* from_dict, lines 278-317: the loop over the segments of one persisted
\* track; exists is the set of media paths that os.path.exists finds
RECURSIVE load_segments(_, _, _, _, _)
load_segments(instance, track_name, segs, data, exists) ==
  IF segs = <<>> THEN Return(instance)
  ELSE
    LET sd == Head(segs)
        found == SelectSeq(data.materials.videos, LAMBDA v : Some(v.id) = sd.material_id)
    IN IF sd.type # "video"
         THEN load_segments(instance, track_name, Tail(segs), data, exists)
       ELSE IF found = <<>>
         THEN load_segments(instance, track_name, Tail(segs), data, exists)
       ELSE IF found[1].path \notin exists
         THEN load_segments(instance, track_name, Tail(segs), data, exists)
       ELSE
         LET n == instance.nextId + 1
             r == add_segment([instance EXCEPT !.nextId = n],
                              rebuild_video_segment(sd, found[1], data, n), track_name)
         IN IF r.err # "ok" THEN Raise(r.err, instance)
            ELSE load_segments(r.d, track_name, Tail(segs), data, exists)

\* A bug the track loop could have: add_track is called for every persisted
\* track, whether or not the name is there already.
RECURSIVE load_tracks_always_add(_, _, _, _)
load_tracks_always_add(instance, trs, data, exists) ==
  IF trs = <<>> THEN Return(instance)
  ELSE
    LET track_data == Head(trs)
        track_type == Track_type_of(track_data.type)
        track_name == track_data.extra_info.name
    IN IF track_type = None THEN Raise("KeyError", instance)
       ELSE
         LET r1 == add_track(instance, track_type[1], track_name, FALSE, 0,
                             track_data.render_index)
         IN IF r1.err # "ok" THEN r1
            ELSE
              LET r2 == load_segments(r1.d, track_name, track_data.segments, data, exists)
              IN IF r2.err # "ok" THEN r2
                 ELSE load_tracks_always_add(r2.d, Tail(trs), data, exists)

\* from_dict, lines 268-317: the loop over the persisted tracks
RECURSIVE load_tracks(_, _, _, _)
load_tracks(instance, trs, data, exists) ==
  IF trs = <<>> THEN Return(instance)
  ELSE
    LET track_data == Head(trs)
        track_type == Track_type_of(track_data.type)
        track_name == track_data.extra_info.name
    IN IF track_type = None THEN Raise("KeyError", instance)
       ELSE
         LET r1 == IF track_name = None \/ track_name[1] \notin TrackNames(instance.tracks)
                     THEN add_track(instance, track_type[1], track_name, FALSE, 0,
                                    track_data.render_index)
                   ELSE Return(instance)
         IN IF r1.err # "ok" THEN r1
            ELSE
              LET r2 == load_segments(r1.d, track_name, track_data.segments, data, exists)
              IN IF r2.err # "ok" THEN r2
                 ELSE load_tracks(r2.d, Tail(trs), data, exists)

\* A bug from_dict could have: the stored duration is not taken over, the
\* duration is left to add_segment.
from_dict_fresh_duration(data, exists, n) ==
  load_tracks([Script_file EXCEPT !.nextId = n], data.tracks, data, exists)

\* Script_file.from_dict; n is the number of uuids minted before the call
from_dict(data, exists, n) ==
  load_tracks([Script_file EXCEPT !.duration = data.duration, !.nextId = n],
              data.tracks, data, exists)

\* ------------------------------------------------- service: sessions.py
\* find_segment_in_session / find_audio_segment_in_session: the position
\* <<track, index>> of the first segment of class cls with that id, or None
find_segment(d, segment_id, cls) ==
  LET hits == {p \in {<<i, k>> : i \in DOMAIN d.tracks, k \in 1..MaxOps} :
                 /\ p[2] \in DOMAIN d.tracks[p[1]].segments
                 /\ d.tracks[p[1]].segments[p[2]].segment_id = segment_id
                 /\ d.tracks[p[1]].segments[p[2]].cls = cls}
  IN IF hits = {} THEN None
     ELSE Some(CHOOSE p \in hits :
                 \A q \in hits : p[1] < q[1] \/ (p[1] = q[1] /\ p[2] <= q[2]))

\* the document with segment p replaced by seg and n uuids minted
with_segment(d, p, seg, n) ==
  [d EXCEPT !.tracks[p[1]].segments[p[2]] = seg, !.nextId = n]

\* add_video_effect: segment.add_effect, then dump; nothing is registered
add_video_effect(d, segment_id) ==
  LET f == find_segment(d, segment_id, "Video_segment") IN
  IF f = None THEN Raise("HTTP404", d)
  ELSE LET n == d.nextId + 1
           seg == d.tracks[f[1][1]].segments[f[1][2]]
       IN Return(dump(with_segment(d, f[1],
                   [seg EXCEPT !.effects = Append(@, Uuid("Video_effect", n))], n)))

\* add_transition: segment.add_transition, then dump; nothing is registered
add_transition(d, segment_id) ==
  LET f == find_segment(d, segment_id, "Video_segment") IN
  IF f = None THEN Raise("HTTP404", d)
  ELSE LET n == d.nextId + 1
           seg == d.tracks[f[1][1]].segments[f[1][2]]
       IN Return(dump(with_segment(d, f[1],
                   [seg EXCEPT !.transition = Some(Uuid("Transition", n))], n)))

\* add_video_animation: segment.add_animation, the animation set registered
\* when the registry does not hold it, then dump
add_video_animation(d, segment_id) ==
  LET f == find_segment(d, segment_id, "Video_segment") IN
  IF f = None THEN Raise("HTTP404", d)
  ELSE LET n == d.nextId + 1
           seg == d.tracks[f[1][1]].segments[f[1][2]]
           ani == IF seg.animations_instance = None
                    THEN Some(Uuid("Segment_animations", n))
                  ELSE seg.animations_instance
           d1 == with_segment(d, f[1], [seg EXCEPT !.animations_instance = ani], n)
       IN Return(dump([d1 EXCEPT !.materials =
                         AppendOptIfAbsent(@, "Segment_animations", ani)]))

\* add_video_filter: segment.add_filter, every filter of the segment
\* registered when the registry does not hold it, then dump
add_video_filter(d, segment_id, intensity) ==
  LET f == find_segment(d, segment_id, "Video_segment") IN
  IF f = None THEN Raise("HTTP404", d)
  ELSE LET n == d.nextId + 1
           seg == d.tracks[f[1][1]].segments[f[1][2]]
           seg1 == [seg EXCEPT !.filters =
                      Append(@, Filter("Filter", n, unit_value(intensity)))]
           d1 == with_segment(d, f[1], seg1, n)
       IN Return(dump([d1 EXCEPT !.materials =
                         AppendEachIfAbsent(@, "Filter", seg1.filters)]))

\* add_audio_fade: segment.add_fade, the fade registered when audio_fades
\* does not hold it, then dump
add_audio_fade(d, segment_id) ==
  LET f == find_segment(d, segment_id, "Audio_segment") IN
  IF f = None THEN Raise("HTTP404", d)
  ELSE LET n == d.nextId + 1
           seg == d.tracks[f[1][1]].segments[f[1][2]]
           seg1 == [seg EXCEPT !.fade = Some(Uuid("Audio_fade", n))]
           d1 == with_segment(d, f[1], seg1, n)
       IN Return(dump([d1 EXCEPT !.materials =
                         AppendOptIfAbsent(@, "Audio_fade", seg1.fade)]))

\* add_audio_effect: segment.add_effect, the last effect of the segment
\* registered when audio_effects does not hold it, then dump
add_audio_effect(d, segment_id) ==
  LET f == find_segment(d, segment_id, "Audio_segment") IN
  IF f = None THEN Raise("HTTP404", d)
  ELSE LET n == d.nextId + 1
           seg == d.tracks[f[1][1]].segments[f[1][2]]
           seg1 == [seg EXCEPT !.effects = Append(@, Uuid("Audio_effect", n))]
           d1 == with_segment(d, f[1], seg1, n)
       IN Return(dump([d1 EXCEPT !.materials =
                         AppendIfAbsent(@, "Audio_effect",
                                        seg1.effects[Len(seg1.effects)])]))

\* ------------------------------------------------------------- import_srt
\* tim() on a number of microseconds
tim(time_offset) == time_offset

\* an SRT timestamp "hh:mm:ss,mmm"
Stamp(h, m, sec, ms) == [h |-> h, m |-> m, s |-> sec, ms |-> ms]

\* srt_tstamp: an SRT timestamp in microseconds
srt_tstamp(t) == ((t.h * 60 + t.m) * 60 + t.s) * 1000000 + t.ms * 1000

\* One stripped line of an SRT file.  k says what the line holds: "blank"
\* (empty after strip), "digits" (str.isdigit), "ts" (a "start --> end"
\* pair of timestamps s and e) or "words" (anything else).
Line(k, s, e) == [k |-> k, s |-> s, e |-> e]

\* Text_segment.create_from_template: the reference's style and clip settings
create_from_template(n, text, start, dur, template) ==
  [Segment("Text_segment", n, start, dur)
     EXCEPT !.text = text, !.style = template.style,
            !.clip_settings = template.clip_settings]

\* A bug __add_text_segment could have: with a reference the call's
\* clip_settings are never applied.
add_text_segment_reference_only(d, text, t_range, c) ==
  LET n == d.nextId + 1
      seg == IF c.style_reference # None
               THEN create_from_template(n, text, t_range.start, t_range.duration,
                                         c.style_reference[1])
             ELSE [Segment("Text_segment", n, t_range.start, t_range.duration)
                     EXCEPT !.text = text, !.style = Some(c.text_style),
                            !.clip_settings = c.clip_settings]
      r == add_segment([d EXCEPT !.nextId = n], seg, Some(c.track_name))
  IN IF r.err = "ok" THEN r ELSE Raise(r.err, d)

\* import_srt.__add_text_segment (lines 480-487); c holds import_srt's arguments
add_text_segment(d, text, t_range, c) ==
  LET n == d.nextId + 1
      seg == IF c.style_reference # None
               THEN LET t == create_from_template(n, text, t_range.start,
                                                  t_range.duration, c.style_reference[1])
                    IN IF c.clip_settings # None
                         THEN [t EXCEPT !.clip_settings = c.clip_settings] ELSE t
             ELSE [Segment("Text_segment", n, t_range.start, t_range.duration)
                     EXCEPT !.text = text, !.style = Some(c.text_style),
                            !.clip_settings = c.clip_settings]
      r == add_segment([d EXCEPT !.nextId = n], seg, Some(c.track_name))
  IN IF r.err = "ok" THEN r ELSE Raise(r.err, d)

\* A bug the loop could have: time_offset is left out of the cue's range.
RECURSIVE read_srt_no_offset(_, _, _, _, _, _, _)
read_srt_no_offset(d, lines, index, read_state, text, text_trange, c) ==
  IF index > Len(lines)
    THEN IF Len(text) > 0 THEN add_text_segment(d, text, text_trange, c)
         ELSE Return(d)
  ELSE
    LET line == lines[index] IN
    CASE read_state = "index" ->
           IF line.k = "blank"
             THEN read_srt_no_offset(d, lines, index + 1, "index", text, text_trange, c)
           ELSE IF line.k # "digits" THEN Raise("ValueError", d)
           ELSE read_srt_no_offset(d, lines, index + 1, "timestamp", text, text_trange, c)
      [] read_state = "timestamp" ->
           IF line.k # "ts" THEN Raise("ValueError", d)
           ELSE read_srt_no_offset(d, lines, index + 1, "content", text,
                         [start |-> srt_tstamp(line.s),
                          duration |-> srt_tstamp(line.e) - srt_tstamp(line.s)], c)
      [] read_state = "content" ->
           IF line.k = "blank"
             THEN LET r == add_text_segment(d, text, text_trange, c)
                  IN IF r.err # "ok" THEN r
                     ELSE read_srt_no_offset(r.d, lines, index + 1, "index", <<>>, text_trange, c)
           ELSE read_srt_no_offset(d, lines, index + 1, "content", Append(text, line),
                         text_trange, c)

\* the while loop of import_srt (lines 489-524), one line per unfolding
RECURSIVE read_srt(_, _, _, _, _, _, _)
read_srt(d, lines, index, read_state, text, text_trange, c) ==
  IF index > Len(lines)
    THEN IF Len(text) > 0 THEN add_text_segment(d, text, text_trange, c)
         ELSE Return(d)
  ELSE
    LET line == lines[index] IN
    CASE read_state = "index" ->
           IF line.k = "blank"
             THEN read_srt(d, lines, index + 1, "index", text, text_trange, c)
           ELSE IF line.k # "digits" THEN Raise("ValueError", d)
           ELSE read_srt(d, lines, index + 1, "timestamp", text, text_trange, c)
      [] read_state = "timestamp" ->
           IF line.k # "ts" THEN Raise("ValueError", d)
           ELSE read_srt(d, lines, index + 1, "content", text,
                         [start |-> srt_tstamp(line.s) + c.time_offset,
                          duration |-> srt_tstamp(line.e) - srt_tstamp(line.s)], c)
      [] read_state = "content" ->
           IF line.k = "blank"
             THEN LET r == add_text_segment(d, text, text_trange, c)
                  IN IF r.err # "ok" THEN r
                     ELSE read_srt(r.d, lines, index + 1, "index", <<>>, text_trange, c)
           ELSE read_srt(d, lines, index + 1, "content", Append(text, line),
                         text_trange, c)

\* A bug import_srt could have: the track is made before the style
\* arguments are checked.
import_srt_track_first(d, file, track_name, time_offset, style_reference, text_style, clip_settings) ==
  LET d1 == IF track_name \notin TrackNames(d.tracks)
              THEN add_track(d, "text", Some(track_name), FALSE, 999, None).d
            ELSE d
  IN IF style_reference = None /\ clip_settings = None THEN Raise("ValueError", d1)
     ELSE IF file = None THEN Raise("OSError", d1)
     ELSE read_srt(d1, file[1], 1, "index", <<>>, [start |-> 0, duration |-> 0],
                   [track_name |-> track_name, time_offset |-> tim(time_offset),
                    style_reference |-> style_reference,
                    text_style |-> text_style, clip_settings |-> clip_settings])

\* Script_file.import_srt; file is None when the path cannot be opened
import_srt(d, file, track_name, time_offset, style_reference, text_style, clip_settings) ==
  IF style_reference = None /\ clip_settings = None THEN Raise("ValueError", d)
  ELSE
    LET d1 == IF track_name \notin TrackNames(d.tracks)
                THEN add_track(d, "text", Some(track_name), FALSE, 999, None).d
              ELSE d
    IN IF file = None THEN Raise("OSError", d1)
       ELSE read_srt(d1, file[1], 1, "index", <<>>, [start |-> 0, duration |-> 0],
                     [track_name |-> track_name, time_offset |-> tim(time_offset),
                      style_reference |-> style_reference,
                      text_style |-> text_style, clip_settings |-> clip_settings])

\* ------------------------------------------------------------------ state
VARIABLES
  tracks,     \* Script_file.tracks: the tracks in creation (dict) order
  duration,   \* Script_file.duration
  materials,  \* Script_file.materials: the registry
  nextId,     \* uuids minted for segments so far
  last        \* the call whose outcome the caller is looking at: its name,
              \* arguments and outcome (err); op = "none" between calls

\* the service around the document: ScriptFileManager, its callers and the
\* materials table
VARIABLES
  cache,      \* ScriptFileManager.cache: (session_id, file) entries, the least
              \* recently used first
  locks,      \* ScriptFileManager.locks: session_id -> lock
  owners,     \* the asyncio.Lock objects made so far: who holds each
  files,      \* the Script_file objects made by get_script_file so far
  db,         \* the rows of the materials table
  requests    \* the request each caller is serving, and where it stands

svars == <<cache, locks, owners, files, db, requests>>

\* admission control: AdaptiveQueueManager and the requests in
\* PerformanceMiddleware.dispatch
VARIABLES
  settings,   \* app.config.settings: the queue parameters the service runs with
  queue,      \* adaptive_queue_manager: limit, range, semaphore, active count
  dispatches  \* the request each caller has in dispatch, and where it stands

qvars == <<settings, queue, dispatches>>

\* the document and the call looked at
document == <<tracks, duration, materials, nextId, last>>

\* the sessions: their table, the clock, the disk and the bucket
VARIABLES
  sessions,     \* the sessions table: status and times of each session_id
  now,          \* datetime.utcnow(), in hours
  dirs,         \* the sessions whose directory exists on disk
  created_dirs, \* path_manager._created_dirs, for the session directories
  bucket        \* the sessions whose zip is in the R2 bucket

evars == <<sessions, now, dirs, created_dirs, bucket>>

vars == <<document, svars, qvars, evars>>

\* the document the variables hold
Doc == [tracks |-> tracks, duration |-> duration, materials |-> materials,
        nextId |-> nextId]

\* the cache's maxsize: ScriptFileManager's capacity (100 in the code), scaled
\* down
capacity == 2

\* the sessions served: one more than the cache holds
Sessions == 1..(capacity + 1)

\* the service stops making objects (locks, documents) at this many
MaxObjects == capacity + 2

\* the queue parameters of app.config as shipped
DefaultSettings ==
  [QUEUE_INITIAL_CONCURRENT_TASKS |-> 150, QUEUE_MIN_CONCURRENT_TASKS |-> 75,
   QUEUE_MAX_CONCURRENT_TASKS |-> 300, SLOT_RESERVE_COUNT |-> 50]

\* AdaptiveQueueManager.__init__; semaphore is the value of the
\* asyncio.Semaphore
AdaptiveQueueManager(st) ==
  [max_concurrent_tasks |-> st.QUEUE_INITIAL_CONCURRENT_TASKS,
   min_concurrent_tasks |-> st.QUEUE_MIN_CONCURRENT_TASKS,
   max_concurrent_limit |-> st.QUEUE_MAX_CONCURRENT_TASKS,
   slot_reserve |-> st.SLOT_RESERVE_COUNT,
   semaphore |-> st.QUEUE_INITIAL_CONCURRENT_TASKS,
   active_tasks_count |-> 0]

\* a caller with no request in dispatch; acquired and released count the
\* slots the request took and gave back, ran tells that call_next was called
NoDispatch ==
  [pc |-> "idle", intensive |-> FALSE, acquired |-> 0, released |-> 0,
   ran |-> FALSE, response |-> "none"]

\* no call pending inspection
NoCall == [op |-> "none", err |-> "ok"]

\* the callers of the service: requests served on one event loop
Callers == {1, 2}

\* a caller serving no request
Idle ==
  [pc |-> "idle", handler |-> "none", session_id |-> 0, lock |-> 0, file |-> 0,
   material_id |-> 0, todo |-> {}, status |-> "none", zipped |-> FALSE,
   response |-> "none", material_type |-> "none", jy_name |-> <<>>]

\* a session_id with no row in the sessions table
NoSession == [status |-> "none", created_at |-> 0, expire_at |-> 0]

\* Script_file.__init__, and the service started with settings st
Started(st) ==
  /\ tracks = Script_file.tracks
  /\ duration = Script_file.duration
  /\ materials = Script_file.materials
  /\ nextId = Script_file.nextId
  /\ last = NoCall
  /\ cache = <<>>
  /\ locks = [s \in Sessions |-> None]
  /\ owners = <<>>
  /\ files = <<>>
  /\ db = <<>>
  /\ requests = [c \in Callers |-> Idle]
  /\ settings = st
  /\ queue = AdaptiveQueueManager(st)
  /\ dispatches = [c \in Callers |-> NoDispatch]
  /\ sessions = [s \in Sessions |-> NoSession]
  /\ now = 0
  /\ dirs = {}
  /\ created_dirs = {}
  /\ bucket = {}

\* the service as shipped
Init == Started(DefaultSettings)

\* A call is made when the caller is done with the previous outcome
\* (last = NoCall); it ends with result r (returned or raised), leaving the
\* document r.d
Becomes(r) ==
  /\ tracks' = r.d.tracks
  /\ duration' = r.d.duration
  /\ materials' = r.d.materials
  /\ nextId' = r.d.nextId
  /\ UNCHANGED <<svars, qvars, evars>>

\* ---------------------------------------------------------------- actions
AddMaterial(mat) ==
  /\ last = NoCall
  /\ Len(tracks) + nextId + Len(materials.videos) + Len(materials.audios) < MaxOps
  /\ \E r \in {add_material(Doc, mat)} :
       /\ Becomes(r)
       /\ last' = [op |-> "add_material", err |-> r.err, mat |-> mat]

AddTrack(track_type, track_name, mute, relative_index, absolute_index) ==
  /\ last = NoCall
  /\ Len(tracks) + nextId < MaxOps
  /\ \E r \in {add_track(Doc, track_type, track_name, mute, relative_index,
                         absolute_index)} :
       /\ Becomes(r)
       /\ last' = [op |-> "add_track", err |-> r.err, track_type |-> track_type,
                   track_name |-> track_name, relative_index |-> relative_index,
                   absolute_index |-> absolute_index]

\* the caller builds segment seg (its uuid is the next one) and adds it
AddSegment(seg, track_name) ==
  /\ last = NoCall
  /\ Len(tracks) + nextId < MaxOps
  /\ seg.segment_id = Uuid("segment", nextId + 1)
  /\ \E r \in {add_segment([Doc EXCEPT !.nextId = nextId + 1], seg, track_name)} :
       /\ Becomes(IF r.err = "ok" THEN r ELSE [r EXCEPT !.d.nextId = nextId])
       /\ last' = [op |-> "add_segment", err |-> r.err, seg |-> seg,
                   track_name |-> track_name]

AddEffect(effect, start, dur, track_name, params) ==
  /\ last = NoCall
  /\ Len(tracks) + nextId < MaxOps
  /\ \E r \in {add_effect(Doc, effect, start, dur, track_name, params)} :
       /\ Becomes(r)
       /\ last' = [op |-> "add_effect", err |-> r.err,
                   seg |-> Segment("Effect_segment", nextId + 1, start, dur),
                   track_name |-> track_name, effect |-> effect,
                   params |-> params]

AddFilter(start, dur, track_name, intensity) ==
  /\ last = NoCall
  /\ Len(tracks) + nextId < MaxOps
  /\ \E r \in {add_filter(Doc, start, dur, track_name, intensity)} :
       /\ Becomes(r)
       /\ last' = [op |-> "add_filter", err |-> r.err,
                   seg |-> Segment("Filter_segment", nextId + 1, start, dur),
                   track_name |-> track_name, intensity |-> intensity]

ImportSrt(file, track_name, time_offset, style_reference, text_style, clip_settings) ==
  /\ last = NoCall
  /\ \E r \in {import_srt(Doc, file, track_name, time_offset, style_reference,
                          text_style, clip_settings)} :
       /\ Len(r.d.tracks) + r.d.nextId <= MaxOps
       /\ Becomes(r)
       /\ last' = [op |-> "import_srt", err |-> r.err, file |-> file,
                   track_name |-> track_name, time_offset |-> time_offset,
                   style_reference |-> style_reference, text_style |-> text_style,
                   clip_settings |-> clip_settings]

\* one request to an editing endpoint of sessions.py for segment segment_id;
\* ep names the endpoint
Endpoint(ep, segment_id) ==
  /\ last = NoCall
  /\ Len(tracks) + nextId < MaxOps
  /\ \E r \in {CASE ep = "add_video_effect" -> add_video_effect(Doc, segment_id)
                 [] ep = "add_transition" -> add_transition(Doc, segment_id)
                 [] ep = "add_video_animation" -> add_video_animation(Doc, segment_id)
                 [] ep = "add_audio_fade" -> add_audio_fade(Doc, segment_id)
                 [] ep = "add_audio_effect" -> add_audio_effect(Doc, segment_id)} :
       /\ Becomes(r)
       /\ last' = [op |-> ep, err |-> r.err, segment_id |-> segment_id]

AddVideoEffect(segment_id) == Endpoint("add_video_effect", segment_id)
AddTransition(segment_id) == Endpoint("add_transition", segment_id)
AddVideoAnimation(segment_id) == Endpoint("add_video_animation", segment_id)
AddAudioFade(segment_id) == Endpoint("add_audio_fade", segment_id)
AddAudioEffect(segment_id) == Endpoint("add_audio_effect", segment_id)

\* one request to add_video_filter for segment segment_id with that intensity
AddVideoFilter(segment_id, intensity) ==
  /\ last = NoCall
  /\ Len(tracks) + nextId < MaxOps
  /\ \E r \in {add_video_filter(Doc, segment_id, intensity)} :
       /\ Becomes(r)
       /\ last' = [op |-> "add_video_filter", err |-> r.err,
                   segment_id |-> segment_id, intensity |-> intensity]

\* Script_file.dumps called by hand
Dumps ==
  /\ last = NoCall
  /\ \E r \in {dumps(Doc)} :
       /\ Becomes(r)
       /\ last' = [op |-> "dumps", err |-> r.err, content |-> r.content,
                   stale |-> Len(materials.texts)]

\* the caller has seen the outcome of the call and moves on
Acknowledge ==
  /\ last # NoCall
  /\ last' = NoCall
  /\ UNCHANGED <<tracks, duration, materials, nextId, svars, qvars, evars>>

\* ----------------------------------------------------------------- inputs
Starts == 0..MaxTime
Durations == 0..MaxTime

\* a material object: two objects may carry the same material_id (tag tells
\* the objects apart)
Material(cls, id, tag) == [material_id |-> id, cls |-> cls, tag |-> tag]

\* a segment with no attachment, as the service builds it
PlainSegment(cls, n, start, dur) ==
  IF cls = "Video_segment"
    THEN [Segment(cls, n, start, dur)
            EXCEPT !.material_instance = Some(Material("Video_material", 1, "x"))]
  ELSE IF cls = "Audio_segment"
    THEN [Segment(cls, n, start, dur)
            EXCEPT !.material_instance = Some(Material("Audio_material", 1, "x"))]
  ELSE Segment(cls, n, start, dur)

\* the lines that carry no timestamp
Blank == Line("blank", None, None)
Digits == Line("digits", None, None)
Words == Line("words", None, None)

\* an SRT file of well-formed cues: index, timestamps, one line of words,
\* blank; a cue is a pair (start, end) of milliseconds
RECURSIVE CueLines(_, _)
CueLines(cues, i) ==
  IF i > Len(cues) THEN <<>>
  ELSE <<Digits, Line("ts", Stamp(0, 0, 0, cues[i][1]), Stamp(0, 0, 0, cues[i][2])),
         Words, Blank>> \o CueLines(cues, i + 1)

Cues == {<<s, s + dd>> : s \in Starts, dd \in 1..MaxTime}

\* the cue lists of the files fed to import_srt: one or two cues
CueLists == {<<c>> : c \in Cues} \cup {<<c1, c2>> : c1 \in Cues, c2 \in Cues}

\* ------------------------------------------------- the timeline, Spec
\* Tracks of every kind, plain segments, standalone effects and filters,
\* subtitle import.
NameArgs == {None, Some("a")}

\* an effect type with one parameter, and parameter lists for it: none, one
\* in range, one out of range, one too many
OneParamEffect == [name |-> "fx", params |-> 1]
ParamArgs ==
  {None, Some(<<Some(50)>>), Some(<<Some(101)>>), Some(<<Some(50), Some(50)>>)}

Next ==
  \/ \E tt \in {"video", "text", "effect", "filter"}, nm \in NameArgs :
       AddTrack(tt, nm, FALSE, 0, None)
  \/ \E cls \in {"Video_segment", "Text_segment"},
        s \in Starts, dd \in Durations, nm \in NameArgs :
       AddSegment(PlainSegment(cls, nextId + 1, s, dd), nm)
  \/ \E s \in Starts, dd \in Durations, nm \in NameArgs, ps \in ParamArgs :
       AddEffect(OneParamEffect, s, dd, nm, ps)
  \/ \E s \in Starts, dd \in Durations, nm \in NameArgs : AddFilter(s, dd, nm, Percent(50))
  \/ \E cl \in CueLists, off \in {0, 1} :
       ImportSrt(Some(CueLines(cl, 1)), "a", off, None, "default", Some("default"))
  \/ Acknowledge

Spec == Init /\ [][Next]_vars

\* ------------------------------------------- track creation, SpecTracks
\* Tracks created with and without names (also names that are kind names),
\* with relative and absolute indexes; a few segments so that tracks have
\* content; subtitle import as the other creator of tracks.
TrackNameArgs == {None, Some("a"), Some("video")}

NextTracks ==
  \/ \E tt \in {"video", "audio", "text"}, nm \in TrackNameArgs,
        rel \in {0, 1}, abs \in {None, Some(7)} :
       AddTrack(tt, nm, FALSE, rel, abs)
  \/ \E cls \in {"Video_segment", "Text_segment"}, nm \in TrackNameArgs :
       AddSegment(PlainSegment(cls, nextId + 1, 0, 1), nm)
  \/ \E nm \in {"a", "video"} :
       ImportSrt(Some(CueLines(<<<<0, 1>>>>, 1)), nm, 0, None, "default",
                 Some("default"))
  \/ Acknowledge

SpecTracks == Init /\ [][NextTracks]_vars

\* --------------------------------------------------- registry, SpecRegistry
\* Materials added by hand (two objects may carry one material_id), and
\* video/audio segments that carry attachments taken from what the caller
\* holds: MaxObj objects per attachment class, so that two segments can
\* carry the same object.
MaterialArgs ==
  {Material("Video_material", id, "x") : id \in 1..MaxMat}
    \cup {Material("Video_material", 1, "y"), Material("Audio_material", 1, "x")}

\* what a segment is dressed with before it is added
VideoDress == {"none", "transition", "mask", "all"}
AudioDress == {"none", "fade", "effect"}

\* segment seg carrying object i of the attachment classes named by dress
Dressed(seg, dress, i) ==
  IF seg.cls = "Video_segment" THEN
    [seg EXCEPT
       !.transition = IF dress \in {"transition", "all"}
                        THEN Some(Uuid("Transition", i)) ELSE None,
       !.effects = IF dress \in {"effect", "all"}
                     THEN <<Uuid("Video_effect", i)>> ELSE <<>>,
       !.mask = IF dress \in {"mask", "all"} THEN Some(Uuid("Mask", i)) ELSE None,
       !.background_filling = IF dress \in {"background_filling", "all"}
                                THEN Some(Uuid("Background_filling", i)) ELSE None]
  ELSE
    [seg EXCEPT
       !.fade = IF dress = "fade" THEN Some(Uuid("Audio_fade", i)) ELSE None,
       !.effects = IF dress = "effect" THEN <<Uuid("Audio_effect", i)>> ELSE <<>>]

NextRegistry ==
  \/ \E mat \in MaterialArgs : AddMaterial(mat)
  \/ \E tt \in {"video", "audio", "effect", "filter"} :
       AddTrack(tt, None, FALSE, 0, None)
  \/ \E start \in Starts, dress \in VideoDress, i \in 1..MaxObj :
       AddSegment(Dressed(PlainSegment("Video_segment", nextId + 1, start, 1),
                          dress, i), None)
  \/ \E start \in Starts, dress \in AudioDress, i \in 1..MaxObj :
       AddSegment(Dressed(PlainSegment("Audio_segment", nextId + 1, start, 1),
                          dress, i), None)
  \/ \E start \in Starts : AddEffect(OneParamEffect, start, 1, None, None)
  \/ \E start \in Starts : AddFilter(start, 1, None, Percent(50))
  \/ Acknowledge

SpecRegistry == Init /\ [][NextRegistry]_vars

\* ------------------------------------------------ subtitle import, SpecSrt
\* the file of the specification's example: 1.000 s - 2.000 s, 3.000 s - 4.500 s
ExampleFile ==
  <<Digits, Line("ts", Stamp(0, 0, 1, 0), Stamp(0, 0, 2, 0)), Words, Blank,
    Digits, Line("ts", Stamp(0, 0, 3, 0), Stamp(0, 0, 4, 500)), Words, Blank>>

\* cues of one millisecond
ShortCues == {<<s, s + 1>> : s \in Starts}

\* cue lists for the files that are not plain: one cue, or two cues the
\* second of which starts where the first ends
ShortLists ==
  {<<c>> : c \in ShortCues} \cup {<<c, <<c[2], c[2] + 1>>>> : c \in ShortCues}

\* the files made from the well-formed file f of a cue list: f without its
\* last blank line; f after a blank line; f with a second line of words in
\* its first cue; f with words for the index line of its last cue; f with
\* words for the timestamp line of its last cue; f cut after the timestamp
\* line of its last cue; f with no words in its last cue
Variants(f) ==
  {SubSeq(f, 1, Len(f) - 1),
   <<Blank>> \o f,
   SubSeq(f, 1, 3) \o <<Words>> \o SubSeq(f, 4, Len(f)),
   [f EXCEPT ![Len(f) - 3] = Words],
   [f EXCEPT ![Len(f) - 2] = Words],
   SubSeq(f, 1, Len(f) - 2),
   SubSeq(f, 1, Len(f) - 2) \o <<Blank>>}

SrtFiles ==
  {CueLines(<<c>>, 1) : c \in ShortCues}
    \cup {CueLines(<<c1, c2>>, 1) : c1 \in ShortCues, c2 \in ShortCues}
    \cup UNION {Variants(CueLines(cl, 1)) : cl \in ShortLists}
    \cup {ExampleFile}

\* the defaults of import_srt's keyword arguments: a call that leaves
\* text_style or clip_settings out is the call with these values
DefaultTextStyle == "Text_style(size=5, align=1)"
DefaultClipSettings == Some("Clip_settings(transform_y=-0.8)")

\* a Text_segment to take the style from
Reference == [style |-> Some("reference style"), clip_settings |-> Some("reference clip")]

\* (style_reference, text_style, clip_settings) of a call
StyleArgs ==
  {<<None, DefaultTextStyle, DefaultClipSettings>>,
   <<None, "given style", Some("given clip")>>,
   <<None, DefaultTextStyle, None>>,
   <<Some(Reference), DefaultTextStyle, DefaultClipSettings>>,
   <<Some(Reference), "given style", Some("given clip")>>,
   <<Some(Reference), DefaultTextStyle, None>>}

\* (file, time_offset, style arguments) of a call: every file with the
\* defaults, the one-cue files with an offset, one file and an unreadable
\* file with every style
ImportArgs ==
  {<<Some(f), 0, <<None, DefaultTextStyle, DefaultClipSettings>>>> : f \in SrtFiles}
    \cup {<<Some(CueLines(<<c>>, 1)), 1, <<None, DefaultTextStyle, DefaultClipSettings>>>> :
            c \in ShortCues}
    \cup {<<Some(CueLines(<<<<0, 1>>>>, 1)), 0, st>> : st \in StyleArgs}
    \cup {<<None, 0, st>> : st \in StyleArgs}

NextSrt ==
  \/ \E rel \in {0, 1000} : AddTrack("text", Some("a"), FALSE, rel, None)
  \/ AddTrack("video", Some("b"), FALSE, 0, None)
  \/ \E a \in ImportArgs, nm \in {"a", "b"} :
       ImportSrt(a[1], nm, a[2], a[3][1], a[3][2], a[3][3])
  \/ Acknowledge

SpecSrt == Init /\ [][NextSrt]_vars

\* ------------------------------------------- editing endpoints, SpecService
\* Segments are put on video and audio tracks, then dressed through the
\* editing endpoints; a transition or a fade is asked for a segment that has
\* none.
SegmentIds == {Uuid("segment", n) : n \in 1..MaxOps}

HasNone(segment_id, field) ==
  \A i \in DOMAIN tracks : \A k \in DOMAIN tracks[i].segments :
    tracks[i].segments[k].segment_id = segment_id =>
      tracks[i].segments[k][field] = None

NextService ==
  \/ \E tt \in {"video", "audio"} : AddTrack(tt, None, FALSE, 0, None)
  \/ \E cls \in {"Video_segment", "Audio_segment"}, start \in Starts :
       AddSegment(PlainSegment(cls, nextId + 1, start, 1), None)
  \/ \E id \in SegmentIds : AddVideoEffect(id)
  \/ \E id \in SegmentIds : HasNone(id, "transition") /\ AddTransition(id)
  \/ \E id \in SegmentIds : AddVideoAnimation(id)
  \/ \E id \in SegmentIds : AddVideoFilter(id, Percent(50))
  \/ \E id \in SegmentIds : HasNone(id, "fade") /\ AddAudioFade(id)
  \/ \E id \in SegmentIds : AddAudioEffect(id)
  \/ Acknowledge

SpecService == Init /\ [][NextService]_vars

\* ------------------------------------------------------------ SpecExport
\* Text and video tracks are made under three names with two relative
\* indexes, so that tracks tie on render_index and are created out of
\* order; text and video segments are put on them; the Document is exported
\* any number of times in between.
ExportNames == {"a", "b", "c"}

NextExport ==
  \/ \E tt \in {"text", "video"}, nm \in ExportNames, rel \in {0, 1} :
       AddTrack(tt, Some(nm), FALSE, rel, None)
  \/ \E cls \in {"Text_segment", "Video_segment"}, nm \in ExportNames, start \in Starts :
       AddSegment(PlainSegment(cls, nextId + 1, start, 1), Some(nm))
  \/ Dumps
  \/ Acknowledge

SpecExport == Init /\ [][NextExport]_vars

\* ------------------------------------------------------------ SpecReload
\* the media paths of the video materials; a subset of them is on disk
\* when a draft is read back
MediaPaths == {"x", "y"}

\* a video segment on the material with that id and path
VideoOn(n, start, id, path) ==
  [Segment("Video_segment", n, start, 1)
     EXCEPT !.material_instance = Some([material_id |-> id, cls |-> "Video_material",
                                        tag |-> path])]

\* persisted segments and tracks written by hand
SegmentData(type, id, start) ==
  [id |-> Uuid("segment", 0), type |-> type, material_id |-> id,
   target_timerange |-> [start |-> start, duration |-> 1],
   material_animation |-> None, extra_material_refs |-> <<>>]

TrackData(type, name, render_index, segs) ==
  [type |-> type, render_index |-> Some(render_index),
   extra_info |-> [name |-> Some(name)], segments |-> segs]

\* a payload with those tracks, that duration and the video materials 1 at
\* "x" and 2 at "y"
Payload(trs, dur) ==
  [duration |-> dur, texts |-> <<>>, tracks |-> trs,
   materials |-> [export_json(Script_material) EXCEPT
                    !.videos = <<[id |-> 1, path |-> "x"], [id |-> 2, path |-> "y"]>>]]

\* payloads no export writes: a name listed twice (with segments that fit
\* together, with segments that collide, with another render_index), a
\* segment whose material id is in no record, a track left empty, a
\* duration beyond the segments
Payloads ==
  {Payload(<<TrackData("video", "a", 5, <<SegmentData("video", Some(1), 0)>>),
             TrackData("video", "a", 7, <<SegmentData("video", Some(2), s)>>)>>, 2) :
     s \in Starts}
  \cup
  {Payload(<<TrackData("video", "a", 5, <<SegmentData("video", Some(3), 0),
                                          SegmentData("video", Some(2), 1)>>),
             TrackData("text", "b", 15000, <<>>)>>, dur) : dur \in {2, 3}}

\* the draft is exported and read back as the service does when it loads a
\* session from its file; the Document read back takes the place of the old
Reopen(exists) ==
  /\ last = NoCall
  /\ \E r \in {from_dict(dumps(Doc).content, exists, nextId)} :
       /\ r.d.nextId <= 2 * MaxOps
       /\ Becomes(IF r.err = "ok" THEN r ELSE Raise(r.err, Doc))
       /\ last' = [op |-> "reopen", err |-> r.err, exists |-> exists,
                   data |-> dumps(Doc).content]

\* Script_file.from_dict on a payload; the Document it returns takes the
\* place of the old, and nothing changes when it raises
FromDict(data, exists) ==
  /\ last = NoCall
  /\ \E r \in {from_dict(data, exists, nextId)} :
       /\ r.d.nextId <= 2 * MaxOps
       /\ Becomes(IF r.err = "ok" THEN r ELSE Raise(r.err, Doc))
       /\ last' = [op |-> "from_dict", err |-> r.err, exists |-> exists,
                   data |-> data]

NextReload ==
  \/ \E tt \in {"video", "text"}, nm \in {"a", "b"}, rel \in {0, 1} :
       AddTrack(tt, Some(nm), FALSE, rel, None)
  \/ \E start \in Starts, nm \in {"a", "b"} :
       \/ AddSegment(VideoOn(nextId + 1, start, 1, "x"), Some(nm))
       \/ AddSegment(VideoOn(nextId + 1, start, 2, "y"), Some(nm))
       \/ AddSegment(PlainSegment("Text_segment", nextId + 1, start, 1), Some(nm))
  \/ \E exists \in SUBSET MediaPaths : Reopen(exists)
  \/ \E data \in Payloads, exists \in SUBSET MediaPaths : FromDict(data, exists)
  \/ Acknowledge

SpecReload == Init /\ [][NextReload]_vars

\* ------------------------------------------------------------ SpecFilter
\* A video segment gets a filter through the endpoint and a filter track
\* gets a Filter_segment, each with any whole intensity from 0 to 100; the
\* draft is exported and read back with its media on disk.
Intensities == {Percent(i) : i \in 0..100}

NextFilter ==
  \/ AddTrack("video", Some("a"), FALSE, 0, None)
  \/ AddTrack("filter", Some("f"), FALSE, 0, None)
  \/ AddSegment(VideoOn(nextId + 1, 0, 1, "x"), Some("a"))
  \/ \E id \in SegmentIds, i \in Intensities : AddVideoFilter(id, i)
  \/ \E i \in Intensities : AddFilter(0, 1, Some("f"), i)
  \/ Reopen(MediaPaths)
  \/ Acknowledge

SpecFilter == Init /\ [][NextFilter]_vars

\* ------------------------------------------- ScriptFileManager, SpecManager
\* Requests of several sessions are served on one event loop: a caller runs
\* from one await to the next without interruption, and any other caller may
\* run at an await.
Handlers == {"add_track", "save_draft", "upload_materials_from_r2"}

\* the sequence without its i-th element
Without(seq, i) == SubSeq(seq, 1, i - 1) \o SubSeq(seq, i + 1, Len(seq))

\* the positions of key in the cache
cache_index(c, key) == {i \in DOMAIN c : c[i].session_id = key}

\* self.cache.get(session_id): the value, or None; a hit makes the entry the
\* most recently used one
cache_get(c, key) ==
  IF cache_index(c, key) = {} THEN [value |-> None, cache |-> c]
  ELSE LET i == CHOOSE i \in cache_index(c, key) : TRUE
       IN [value |-> Some(c[i].file), cache |-> Append(Without(c, i), c[i])]

\* self.cache[session_id] = instance, for a session that has no entry: a full
\* cache drops its least recently used entry
cache_set(c, key, value) ==
  Append(IF Len(c) >= capacity THEN Tail(c) ELSE c,
         [session_id |-> key, file |-> value])

\* del self.cache[session_id]
cache_del(c, key) == SelectSeq(c, LAMBDA e : e.session_id # key)

\* the rows of a session, in table order
RowsOf(s) == SelectSeq(db, LAMBDA row : row.session_id = s)

\* the class of the material made for a row
ClassOf(material_type) ==
  IF material_type = "audio" THEN "Audio_material" ELSE "Video_material"

\* the materials of a document that came from the table: ids in videos and
\* audios
existing_material_ids(d) ==
  {d.materials.videos[i].material_id : i \in DOMAIN d.materials.videos}
    \cup {d.materials.audios[i].material_id : i \in DOMAIN d.materials.audios}

\* A bug the sync could have: the material of a row is appended without
\* asking the document again.
RECURSIVE sync_materials_append(_, _, _)
sync_materials_append(d, rows, todo) ==
  IF rows = <<>> THEN d
  ELSE LET row == Head(rows)
           cls == ClassOf(row.material_type)
       IN IF row.material_id \notin todo
            THEN sync_materials_append(d, Tail(rows), todo)
          ELSE sync_materials_append(
                 [d EXCEPT !.materials[CollectionOf(cls)] =
                    Append(@, Material(cls, row.material_id, "x"))],
                 Tail(rows), todo)

\* get_script_file's material sync after the analysis awaits: the rows found
\* missing and analysed (todo) are handed to add_material in table order
RECURSIVE sync_materials(_, _, _)
sync_materials(d, rows, todo) ==
  IF rows = <<>> THEN d
  ELSE LET row == Head(rows)
       IN IF row.material_id \notin todo THEN sync_materials(d, Tail(rows), todo)
          ELSE sync_materials(
                 add_material(d, Material(ClassOf(row.material_type),
                                          row.material_id, "x")).d,
                 Tail(rows), todo)

\* get_script_file inside `async with lock`, up to the await of the rows:
\* caller c has just taken lock l; the document is looked up, and made anew
\* and cached when the cache has none
Enter(c, s, h, l, owners1) ==
  LET found == cache_get(cache, s)
      hit == found.value # None
      f == IF hit THEN found.value[1] ELSE Len(files) + 1
  IN /\ hit \/ Len(files) < MaxObjects
     /\ cache' = IF hit THEN found.cache ELSE cache_set(cache, s, f)
     /\ files' = IF hit THEN files
                 ELSE Append(files, [session_id |-> s, d |-> Script_file])
     /\ owners' = [owners1 EXCEPT ![l] = Some(c)]
     /\ requests' = [requests EXCEPT ![c] =
                       [Idle EXCEPT !.pc = "syncing", !.handler = h,
                                    !.session_id = s, !.lock = l, !.file = f,
                                    !.status = requests[c].status]]

\* get_script_file from its call to its first await: the session's lock is
\* taken from _get_or_create_lock (made when the session has none); the
\* caller enters when the lock is free, else waits for it
get_script_file(c, s, h) ==
  LET made == locks[s] = None
      l == IF made THEN Len(owners) + 1 ELSE locks[s][1]
      owners1 == IF made THEN Append(owners, None) ELSE owners
  IN /\ made => Len(owners) < MaxObjects
     /\ locks' = [locks EXCEPT ![s] = Some(l)]
     /\ IF owners1[l] = None THEN Enter(c, s, h, l, owners1)
        ELSE /\ owners' = owners1
             /\ requests' = [requests EXCEPT ![c] =
                               [Idle EXCEPT !.pc = "waiting", !.handler = h,
                                            !.session_id = s, !.lock = l,
                                            !.status = requests[c].status]]
             /\ UNCHANGED <<cache, files>>

\* a request of handler h for an active session s reaches get_script_file
GetScriptFile(c, s, h) ==
  /\ requests[c].pc = "idle"
  /\ get_script_file(c, s, h)
  /\ UNCHANGED <<document, qvars, evars, db>>

\* a request of handler h for session s arrives:
\* get_script_file_from_session_id reads the session's row
Arrive(c, s, h) ==
  /\ requests[c].pc = "idle"
  /\ requests' = [requests EXCEPT ![c] =
                    [Idle EXCEPT !.pc = "arrived", !.handler = h, !.session_id = s,
                                 !.status = sessions[s].status]]
  /\ UNCHANGED <<document, qvars, evars, cache, locks, owners, files, db>>

\* A bug the dependency could have: only an unknown session is turned away.
Depend_known(c) ==
  /\ requests[c].pc = "arrived"
  /\ IF requests[c].status = "none"
       THEN /\ requests' = [requests EXCEPT ![c] = [Idle EXCEPT !.response = "404"]]
            /\ UNCHANGED <<cache, locks, owners, files>>
     ELSE get_script_file(c, requests[c].session_id, requests[c].handler)
  /\ UNCHANGED <<document, qvars, evars, db>>

\* the row has arrived: an unknown session is answered 404, one that is not
\* active 400, and for an active one get_script_file is called
Depend(c) ==
  /\ requests[c].pc = "arrived"
  /\ IF requests[c].status # "active"
       THEN /\ requests' = [requests EXCEPT ![c] =
                              [Idle EXCEPT !.response =
                                 IF requests[c].status = "none" THEN "404" ELSE "400"]]
            /\ UNCHANGED <<cache, locks, owners, files>>
     ELSE get_script_file(c, requests[c].session_id, requests[c].handler)
  /\ UNCHANGED <<document, qvars, evars, db>>

\* the lock a caller waits for is released: the caller takes it
Acquire(c) ==
  /\ requests[c].pc = "waiting"
  /\ owners[requests[c].lock] = None
  /\ Enter(c, requests[c].session_id, requests[c].handler, requests[c].lock, owners)
  /\ UNCHANGED <<document, qvars, evars, locks, db>>

\* the disk as path_manager sees it
Disk == [dirs |-> dirs, created_dirs |-> created_dirs]

\* PathManager.get_session_dir: the directory is made unless _created_dirs
\* has it
get_session_dir(fs, s) ==
  IF s \in fs.created_dirs THEN fs
  ELSE [dirs |-> fs.dirs \cup {s}, created_dirs |-> fs.created_dirs \cup {s}]

\* get_script_file returns document d1 to caller c and leaves the lock; the
\* handler runs to its first await. add_track adds the track and dumps the
\* draft into the session directory; save_draft dumps it and starts the
\* zip; a dump into a missing directory raises
Leave(c, d1) ==
  LET rq == requests[c]
      r == add_track(d1, "video", Some("a"), FALSE, 0, None)
      fs1 == IF rq.handler = "upload_materials_from_r2"
                  \/ (rq.handler = "add_track" /\ r.err # "ok")
               THEN Disk
             ELSE get_session_dir(Disk, rq.session_id)
      dumped == rq.session_id \in fs1.dirs
  IN /\ files' = [files EXCEPT ![rq.file].d =
                    CASE rq.handler = "add_track" ->
                           IF r.err = "ok" /\ dumped THEN dump(r.d) ELSE r.d
                      [] rq.handler = "save_draft" ->
                           IF dumped THEN dump(d1) ELSE d1
                      [] OTHER -> d1]
     /\ requests' = [requests EXCEPT ![c] =
                       CASE rq.handler = "add_track" ->
                              [Idle EXCEPT !.response =
                                 IF r.err # "ok" THEN "400"
                                 ELSE IF dumped THEN "ok" ELSE "500"]
                         [] rq.handler = "save_draft" ->
                              IF dumped THEN [rq EXCEPT !.pc = "packing", !.todo = {}]
                              ELSE [Idle EXCEPT !.response = "500"]
                         [] OTHER -> [rq EXCEPT !.pc = "naming", !.todo = {}]]
     /\ owners' = [owners EXCEPT ![rq.lock] = None]
     /\ dirs' = fs1.dirs
     /\ created_dirs' = fs1.created_dirs

\* the rows arrive: the rows whose material the document lacks are found;
\* those whose file exists are analysed (ok: the ones analysed with success),
\* and with none to analyse get_script_file returns at once
Sync(c) ==
  /\ requests[c].pc = "syncing"
  /\ LET rq == requests[c]
         rows == RowsOf(rq.session_id)
         missing == {rows[i].material_id : i \in DOMAIN rows}
                      \ existing_material_ids(files[rq.file].d)
     IN \E ok \in SUBSET missing :
          IF ok = {} THEN Leave(c, files[rq.file].d)
          ELSE /\ requests' = [requests EXCEPT ![c].pc = "analysing", ![c].todo = ok]
               /\ UNCHANGED <<files, owners, dirs, created_dirs>>
  /\ UNCHANGED <<document, qvars, sessions, now, bucket, cache, locks, db>>

\* the analyses are done: the materials are added and get_script_file
\* returns
Obtain(c) ==
  /\ requests[c].pc = "analysing"
  /\ Leave(c, sync_materials(files[requests[c].file].d,
                             RowsOf(requests[c].session_id), requests[c].todo))
  /\ UNCHANGED <<document, qvars, sessions, now, bucket, cache, locks, db>>

\* save_draft: create_zip_from_directory is done; it made the zip (ok) or
\* returned None; there is nothing to zip when the directory is gone
Zip(c, ok) ==
  /\ requests[c].pc = "packing"
  /\ requests' = [requests EXCEPT
                    ![c].pc = "uploading",
                    ![c].zipped = ok /\ requests[c].session_id \in dirs]
  /\ UNCHANGED <<document, qvars, evars, cache, locks, owners, files, db>>

\* save_draft: upload_file is done; it put the zip into the bucket (ok) or
\* returned False. The zip is removed, which raises when there is none,
\* and the session directory is removed on both paths
Finish(c, ok) ==
  /\ requests[c].pc = "uploading"
  /\ LET rq == requests[c]
         s == rq.session_id
     IN /\ bucket' = IF rq.zipped /\ ok THEN bucket \cup {s} ELSE bucket
        /\ dirs' = dirs \ {s}
        /\ requests' = [requests EXCEPT ![c] =
                          [Idle EXCEPT !.response =
                             IF rq.zipped /\ s \in dirs THEN "success" ELSE "500"]]
  /\ UNCHANGED <<document, qvars, sessions, now, created_dirs, cache, locks, owners,
                 files, db>>

\* the material types a client uploads
MaterialTypes == {"video", "image", "audio"}

\* a string as the sequence of its characters
Chars(material_type) ==
  CASE material_type = "video" -> <<"v", "i", "d", "e", "o">>
    [] material_type = "image" -> <<"i", "m", "a", "g", "e">>
    [] OTHER -> <<"a", "u", "d", "i", "o">>

\* the decimal digits, digit d at index d + 1
DecimalDigits == <<"0", "1", "2", "3", "4", "5", "6", "7", "8", "9">>

\* f"{next_num:03d}"
Format03d(n) ==
  IF n < 1000
    THEN <<DecimalDigits[(n \div 100) + 1], DecimalDigits[((n \div 10) % 10) + 1],
           DecimalDigits[(n % 10) + 1]>>
  ELSE <<DecimalDigits[(n \div 1000) + 1], DecimalDigits[((n \div 100) % 10) + 1],
         DecimalDigits[((n \div 10) % 10) + 1], DecimalDigits[(n % 10) + 1]>>

\* SUBSTR(X, Y): the characters of X from the Y-th, counted from 1
SUBSTR(x, y) == SubSeq(x, y, Len(x))

\* the value of the digits a text starts with, after acc
RECURSIVE LeadingDigits(_, _)
LeadingDigits(x, acc) ==
  IF x = <<>> \/ \A d \in DOMAIN DecimalDigits : DecimalDigits[d] # Head(x) THEN acc
  ELSE LeadingDigits(Tail(x),
         10 * acc + (CHOOSE d \in DOMAIN DecimalDigits : DecimalDigits[d] = Head(x)) - 1)

\* CAST(X AS INTEGER) of a text in SQLite: the longest prefix that reads as
\* an integer, and 0 when there is none
CAST_INTEGER(x) ==
  IF x # <<>> /\ Head(x) = "-" THEN 0 - LeadingDigits(Tail(x), 0)
  ELSE IF x # <<>> /\ Head(x) = "+" THEN LeadingDigits(Tail(x), 0)
  ELSE LeadingDigits(x, 0)

\* jy_name LIKE '<type>_%': the prefix, any one character, then anything
LIKE(x, type_prefix) ==
  /\ Len(x) > Len(type_prefix)
  /\ SubSeq(x, 1, Len(type_prefix)) = type_prefix

\* the largest member of a set of numbers, 0 for none: COALESCE(MAX(..), 0)
MAX(numbers) ==
  IF numbers = {} THEN 0 ELSE CHOOSE n \in numbers : \A m \in numbers : m <= n

\* _generate_unique_jy_name's query: the largest number read from the names
\* of the session's rows of the type (video and image are asked together)
max_num(rows, s, material_type) ==
  MAX({CAST_INTEGER(SUBSTR(rows[i].jy_name, Len(Chars(material_type)) + 1)) :
         i \in {k \in DOMAIN rows :
                  /\ rows[k].session_id = s
                  /\ IF material_type \in {"video", "image"}
                       THEN rows[k].material_type \in {"video", "image"}
                     ELSE rows[k].material_type = material_type
                  /\ LIKE(rows[k].jy_name, Chars(material_type))}})

\* _generate_unique_jy_name: the type, an underscore and the next number
generate_unique_jy_name(rows, s, material_type) ==
  Chars(material_type) \o <<"_">> \o Format03d(max_num(rows, s, material_type) + 1)

\* add_material_from_r2 up to the download: the name is generated from the
\* rows the table has now
Name(c, material_type) ==
  /\ requests[c].pc = "naming"
  /\ requests' = [requests EXCEPT
                    ![c].pc = "downloading",
                    ![c].material_type = material_type,
                    ![c].jy_name = generate_unique_jy_name(
                                     db, requests[c].session_id, material_type)]
  /\ UNCHANGED <<document, qvars, evars, cache, locks, owners, files, db>>

\* the rows that hold the (session_id, jy_name) of a request
SameName(c) ==
  {i \in DOMAIN db : /\ db[i].session_id = requests[c].session_id
                     /\ db[i].jy_name = requests[c].jy_name}

\* add_material_from_r2 after download and analysis: the row is committed,
\* and the commit raises when the table has the (session_id, jy_name)
Commit(c) ==
  /\ requests[c].pc = "downloading"
  /\ IF SameName(c) # {}
       THEN /\ requests' = [requests EXCEPT ![c] = [Idle EXCEPT !.response = "500"]]
            /\ db' = db
     ELSE /\ Len(db) < MaxObj
          /\ db' = Append(db, [session_id |-> requests[c].session_id,
                               material_id |-> Len(db) + 1,
                               material_type |-> requests[c].material_type,
                               jy_name |-> requests[c].jy_name])
          /\ requests' = [requests EXCEPT ![c].pc = "committed",
                                          ![c].material_id = Len(db) + 1]
  /\ UNCHANGED <<document, qvars, evars, cache, locks, owners,
                 files>>

\* add_material_from_r2 fails to download or analyse: the handler raises
Abort(c) ==
  /\ requests[c].pc = "downloading"
  /\ requests' = [requests EXCEPT ![c] = Idle]
  /\ UNCHANGED <<document, qvars, evars, cache, locks, owners,
                 files, db>>

\* add_material_from_r2 after the commit: the material goes into the document
Register(c) ==
  /\ requests[c].pc = "committed"
  /\ files' = [files EXCEPT ![requests[c].file].d =
                 add_material(@, Material(ClassOf(db[requests[c].material_id].material_type),
                                          requests[c].material_id, "x")).d]
  /\ requests' = [requests EXCEPT ![c] = Idle]
  /\ UNCHANGED <<document, qvars, evars, cache, locks, owners,
                 db>>

\* remove_script_file(session_id), until every caller can have a lock of its
\* own
Remove(s) ==
  /\ Len(owners) < Cardinality(Callers)
  /\ cache' = cache_del(cache, s)
  /\ locks' = [locks EXCEPT ![s] = None]
  /\ UNCHANGED <<document, qvars, evars, owners, files, db,
                 requests>>

\* requests that add a track, for more sessions than the cache holds
NextCache ==
  \/ \E c \in Callers, s \in Sessions : GetScriptFile(c, s, "add_track")
  \/ \E c \in Callers : Acquire(c)
  \/ \E c \in Callers : Sync(c)

SpecCache == Init /\ [][NextCache]_vars

\* requests of every handler for one session, which may be dropped from the
\* manager at any time
NextManager ==
  \/ \E c \in Callers, h \in Handlers : GetScriptFile(c, 1, h)
  \/ \E c \in Callers : Acquire(c)
  \/ \E c \in Callers : Sync(c)
  \/ \E c \in Callers : Obtain(c)
  \/ \E c \in Callers, ok \in BOOLEAN : Zip(c, ok)
  \/ \E c \in Callers, ok \in BOOLEAN : Finish(c, ok)
  \/ \E c \in Callers, mt \in {"video", "audio"} : Name(c, mt)
  \/ \E c \in Callers : Commit(c)
  \/ \E c \in Callers : Abort(c)
  \/ \E c \in Callers : Register(c)
  \/ Remove(1)

SpecManager == Init /\ [][NextManager]_vars

\* uploads of materials of every type to one session
NextUpload ==
  \/ \E c \in Callers : GetScriptFile(c, 1, "upload_materials_from_r2")
  \/ \E c \in Callers : Acquire(c)
  \/ \E c \in Callers : Sync(c)
  \/ \E c \in Callers : Obtain(c)
  \/ \E c \in Callers, mt \in MaterialTypes : Name(c, mt)
  \/ \E c \in Callers : Commit(c)
  \/ \E c \in Callers : Abort(c)
  \/ \E c \in Callers : Register(c)

SpecUpload == Init /\ [][NextUpload]_vars

\* --------------------------------------------- the sessions, SpecSessions
\* A session is created, edited and saved while the clock runs and the
\* cleanup job is run.

\* the clock stops at this many hours
MaxHours == 3

\* cleanup_expired_sessions: expiration_hours
expiration_hours == 1

\* create_session: timedelta(days=1), in hours
SessionHours == 24

\* create_session: the row is inserted, then the template is copied into
\* the session directory, which replaces a directory found there
CreateSession(s) ==
  /\ sessions[s] = NoSession
  /\ sessions' = [sessions EXCEPT ![s] =
                    [status |-> "active", created_at |-> now,
                     expire_at |-> now + SessionHours]]
  /\ dirs' = dirs \cup {s}
  /\ created_dirs' = get_session_dir(Disk, s).created_dirs
  /\ UNCHANGED <<document, svars, qvars, now, bucket>>

\* an hour passes
Tick ==
  /\ now < MaxHours
  /\ now' = now + 1
  /\ UNCHANGED <<document, svars, qvars, sessions, dirs, created_dirs, bucket>>

\* the sessions cleanup_expired_sessions selects
expired_sessions ==
  {s \in Sessions : /\ sessions[s].status = "active"
                    /\ sessions[s].created_at < now - expiration_hours}

\* cleanup_expired_sessions: the directory of every selected session is
\* asked of path_manager and removed, and the session is marked expired
Cleanup ==
  /\ expired_sessions # {}
  /\ dirs' = dirs \ expired_sessions
  /\ created_dirs' = created_dirs \cup expired_sessions
  /\ sessions' = [s \in Sessions |->
                    IF s \in expired_sessions
                      THEN [sessions[s] EXCEPT !.status = "expired"]
                    ELSE sessions[s]]
  /\ UNCHANGED <<document, svars, qvars, now, bucket>>

\* one session from before its creation to after its expiry, with requests
\* that add a track and save the draft
NextSessions ==
  \/ CreateSession(1)
  \/ Tick
  \/ Cleanup
  \/ \E c \in Callers, h \in {"add_track", "save_draft"} : Arrive(c, 1, h)
  \/ \E c \in Callers : Depend(c)
  \/ \E c \in Callers : Acquire(c)
  \/ \E c \in Callers : Sync(c)
  \/ \E c \in Callers, ok \in BOOLEAN : Zip(c, ok)
  \/ \E c \in Callers, ok \in BOOLEAN : Finish(c, ok)

SpecSessions == Init /\ [][NextSessions]_vars

\* ---------------------------------------- AdaptiveQueueManager, SpecQueue
\* Requests pass PerformanceMiddleware.dispatch on one event loop, under
\* any readings of the performance monitor and any configured range.

\* the largest number of slots configured
MaxSlots == 3

\* the queue parameters the service may be configured with
ConfiguredSettings ==
  {st \in [QUEUE_INITIAL_CONCURRENT_TASKS : 1..MaxSlots,
           QUEUE_MIN_CONCURRENT_TASKS : 1..MaxSlots,
           QUEUE_MAX_CONCURRENT_TASKS : 1..MaxSlots,
           SLOT_RESERVE_COUNT : {0, 1}] :
     /\ st.QUEUE_MIN_CONCURRENT_TASKS <= st.QUEUE_INITIAL_CONCURRENT_TASKS
     /\ st.QUEUE_INITIAL_CONCURRENT_TASKS <= st.QUEUE_MAX_CONCURRENT_TASKS}

\* the readings of the performance monitor as the thresholds sort them:
\* over a critical threshold, over a high one, under all the low ones, or
\* none of these
Metrics == {"critical", "high", "low", "normal"}

\* AdaptiveQueueManager.assess_system_load
assess_system_load(q, metrics) ==
  CASE metrics = "critical" -> "CRITICAL"
    [] metrics = "high" -> "HIGH"
    [] metrics = "low"
         /\ q.active_tasks_count < q.max_concurrent_tasks - q.slot_reserve -> "LOW"
    [] OTHER -> "NORMAL"

\* AdaptiveQueueManager.adjust_concurrency
adjust_concurrency(q, metrics) ==
  LET load_level == assess_system_load(q, metrics)
  IN CASE load_level = "CRITICAL" ->
            [q EXCEPT !.max_concurrent_tasks = Max(1, @ - 2)]
       [] load_level = "HIGH" ->
            [q EXCEPT !.max_concurrent_tasks = Max(q.min_concurrent_tasks, @ - 1)]
       [] load_level = "LOW" /\ q.max_concurrent_tasks < q.max_concurrent_limit ->
            [q EXCEPT !.max_concurrent_tasks =
                        IF @ + 1 < q.max_concurrent_limit THEN @ + 1
                        ELSE q.max_concurrent_limit]
       [] OTHER -> q

\* acquire_task_slot once semaphore.acquire() has returned
take_task_slot(q) ==
  [q EXCEPT !.semaphore = @ - 1, !.active_tasks_count = @ + 1]

\* A bug release_task_slot could have: the counter is lowered and the
\* semaphore is not released.
release_task_slot_counter_only(q) ==
  [q EXCEPT !.active_tasks_count = Max(0, @ - 1)]

\* AdaptiveQueueManager.release_task_slot
release_task_slot(q) ==
  [q EXCEPT !.semaphore = @ + 1, !.active_tasks_count = Max(0, @ - 1)]

\* a request enters dispatch. For a resource intensive endpoint
\* acquire_task_slot adjusts the limit, refuses when the readings are
\* extreme, takes a slot when the semaphore has one and waits otherwise;
\* the other endpoints go to call_next at once
Dispatch(c, intensive, metrics, extreme) ==
  /\ dispatches[c].pc \in {"idle", "done"}
  /\ LET q1 == adjust_concurrency(queue, metrics)
         rq == [NoDispatch EXCEPT !.intensive = intensive]
     IN IF ~intensive
          THEN /\ dispatches' = [dispatches EXCEPT ![c] =
                                   [rq EXCEPT !.pc = "handling", !.ran = TRUE]]
               /\ queue' = queue
        ELSE IF extreme
          THEN /\ dispatches' = [dispatches EXCEPT ![c] =
                                   [rq EXCEPT !.pc = "done", !.response = "429"]]
               /\ queue' = q1
        ELSE IF q1.semaphore > 0
          THEN /\ dispatches' = [dispatches EXCEPT ![c] =
                                   [rq EXCEPT !.pc = "handling", !.acquired = 1,
                                              !.ran = TRUE]]
               /\ queue' = take_task_slot(q1)
        ELSE /\ dispatches' = [dispatches EXCEPT ![c] = [rq EXCEPT !.pc = "waiting"]]
             /\ queue' = q1
  /\ UNCHANGED <<document, svars, evars, settings>>

\* a waiting request gets a slot: semaphore.acquire() returns
Granted(c) ==
  /\ dispatches[c].pc = "waiting"
  /\ queue.semaphore > 0
  /\ queue' = take_task_slot(queue)
  /\ dispatches' = [dispatches EXCEPT ![c].pc = "handling", ![c].acquired = 1,
                                      ![c].ran = TRUE]
  /\ UNCHANGED <<document, svars, evars, settings>>

\* the wait of a request times out: acquire_task_slot returns False and
\* dispatch raises HTTPException(429)
TimedOut(c) ==
  /\ dispatches[c].pc = "waiting"
  /\ dispatches' = [dispatches EXCEPT ![c].pc = "done", ![c].response = "429"]
  /\ UNCHANGED <<document, svars, evars, settings, queue>>

\* call_next returns (ok) or raises: the slot of a resource intensive
\* request is released in the finally clause
Responds(c, ok) ==
  /\ dispatches[c].pc = "handling"
  /\ dispatches' = [dispatches EXCEPT
                      ![c].pc = "done",
                      ![c].response = IF ok THEN "response" ELSE "raised",
                      ![c].released = IF dispatches[c].intensive THEN 1 ELSE 0]
  /\ queue' = IF dispatches[c].intensive THEN release_task_slot(queue) ELSE queue
  /\ UNCHANGED <<document, svars, evars, settings>>

NextQueue ==
  \/ \E c \in Callers, intensive \in BOOLEAN, metrics \in Metrics, extreme \in BOOLEAN :
       Dispatch(c, intensive, metrics, extreme)
  \/ \E c \in Callers : Granted(c)
  \/ \E c \in Callers : TimedOut(c)
  \/ \E c \in Callers, ok \in BOOLEAN : Responds(c, ok)

\* the service started under any configured range
InitQueue == \E st \in ConfiguredSettings : Started(st)

SpecQueue == InitQueue /\ [][NextQueue]_vars

\* ------------------------------------------------------ claims: vocabulary
\* the calls that put one segment on a track
InsertOps == {"add_segment", "add_effect", "add_filter"}

\* call c gets as far as the track: add_effect builds its segment, which
\* checks the parameters, before it inserts
ReachesTrack(c) == c.op = "add_effect" => params_valid(c.effect, c.params)

\* The tracks (positions in trs) a call for a segment of class cls naming
\* track_name is aimed at: the track of that name, or with no name the one
\* track accepting cls when there is exactly one.
Targets(trs, cls, track_name) ==
  IF track_name # None THEN {i \in DOMAIN trs : trs[i].name = track_name[1]}
  ELSE IF Cardinality({i \in DOMAIN trs : accept_segment_type(trs[i].track_type) = cls}) = 1
    THEN {i \in DOMAIN trs : accept_segment_type(trs[i].track_type) = cls}
  ELSE {}

\* segment seg collides with a segment of list segs
Collides(seg, segs) ==
  \E k \in DOMAIN segs :
    /\ seg.start < segs[k].start + segs[k].duration
    /\ segs[k].start < seg.start + seg.duration

\* the (start, duration) pairs of a list of segments
Ranges(segs) == [k \in DOMAIN segs |-> <<segs[k].start, segs[k].duration>>]

\* every segment of the document
AllSegments ==
  UNION {{tracks[i].segments[k] : k \in DOMAIN tracks[i].segments} : i \in DOMAIN tracks}

SetMax(S) == IF S = {} THEN 0 ELSE CHOOSE x \in S : \A y \in S : y <= x

\* the cues of a well-formed file: (start, end), in microseconds, of every
\* 4-line block
FileCues(lines) ==
  [j \in 1..(Len(lines) \div 4) |->
     <<(lines[4 * j - 2].s.s * 1000 + lines[4 * j - 2].s.ms) * 1000,
       (lines[4 * j - 2].e.s * 1000 + lines[4 * j - 2].e.ms) * 1000>>]

\* cue j of cues, shifted by off, as a (start, duration) segment range
CueRange(cues, j, off) ==
  [start |-> cues[j][1] + off, duration |-> cues[j][2] - cues[j][1]]

\* cue j collides with a segment of segs or with an earlier cue of the file
CueBlocked(cues, j, off, segs) ==
  \/ Collides(CueRange(cues, j, off), segs)
  \/ \E i \in 1..(j - 1) :
       Collides(CueRange(cues, j, off), <<CueRange(cues, i, off)>>)

\* the cues before the first blocked one (all of them when none is blocked)
Admitted(cues, off, segs) ==
  {j \in DOMAIN cues : \A i \in 1..j : ~CueBlocked(cues, i, off, segs)}

\* ---------------------------------------------------------------------- C1
\* C1: on every track no two segments overlap, and an insertion that would
\* overlap a segment of its target track fails and leaves the track's
\* segments as they were.  For import_srt the insertions are its cues: the
\* cues before the first colliding one are appended, that one raises, and
\* nothing else reaches the track.
C1_NoOverlap ==
  \A i \in DOMAIN tracks : \A j, k \in DOMAIN tracks[i].segments :
    j # k => ~(/\ tracks[i].segments[j].start
                    < tracks[i].segments[k].start + tracks[i].segments[k].duration
               /\ tracks[i].segments[k].start
                    < tracks[i].segments[j].start + tracks[i].segments[j].duration)

C1_InsertStep ==
  last'.op \in InsertOps =>
    \A i \in Targets(tracks, last'.seg.cls, last'.track_name) :
      Collides(last'.seg, tracks[i].segments) =>
        /\ last'.err # "ok"
        /\ tracks' = tracks

C1_ImportStep ==
  (last'.op = "import_srt" /\ last'.track_name \in TrackNames(tracks)) =>
    LET i == TrackIndex(tracks, last'.track_name)
        cues == FileCues(last'.file[1])
        ok == Admitted(cues, last'.time_offset, tracks[i].segments)
    IN (tracks[i].track_type = "text" /\ ok # DOMAIN cues) =>
         /\ last'.err = "SegmentOverlap"
         /\ Ranges(tracks'[i].segments) =
              Ranges(tracks[i].segments) \o
                [j \in 1..Cardinality(ok) |->
                   <<cues[j][1] + last'.time_offset, cues[j][2] - cues[j][1]>>]

C1_OverlapRejected ==
  []C1_NoOverlap /\ [][C1_InsertStep /\ C1_ImportStep]_vars

\* a call was refused for overlap with a segment that is on its target track
C1_Witness ==
  /\ last.op \in InsertOps
  /\ last.err = "SegmentOverlap"
  /\ \E i \in Targets(tracks, last.seg.cls, last.track_name) :
       Collides(last.seg, tracks[i].segments)

\* ---------------------------------------------------------------------- C2
\* C2: an insertion aimed at a track of the segment's kind is refused for
\* overlap exactly when some segment [b, b+db) of the track has a < b+db and
\* b < a+da for the new range [a, a+da); a segment that only touches an
\* existing one is accepted, and an accepted segment goes to the end of the
\* track's list whatever its start time.
C2_Step ==
  (last'.op \in InsertOps /\ ReachesTrack(last')) =>
    \A i \in Targets(tracks, last'.seg.cls, last'.track_name) :
      accept_segment_type(tracks[i].track_type) = last'.seg.cls =>
        /\ last'.err = "SegmentOverlap" <=> Collides(last'.seg, tracks[i].segments)
        /\ last'.err \in {"ok", "SegmentOverlap"}
        /\ last'.err = "ok" =>
             /\ Len(tracks'[i].segments) = Len(tracks[i].segments) + 1
             /\ SubSeq(tracks'[i].segments, 1, Len(tracks[i].segments)) = tracks[i].segments
             /\ tracks'[i].segments[Len(tracks'[i].segments)].segment_id
                  = last'.seg.segment_id
             /\ Ranges(tracks'[i].segments) =
                  Append(Ranges(tracks[i].segments),
                         <<last'.seg.start, last'.seg.duration>>)

C2_OverlapExact == [][C2_Step]_vars

\* a segment was accepted that ends exactly where an earlier segment of its
\* track starts: the list is in insertion order, not in time order
C2_Witness ==
  /\ last.op \in InsertOps
  /\ last.err = "ok"
  /\ \E i \in DOMAIN tracks :
       /\ Len(tracks[i].segments) = 2
       /\ tracks[i].segments[2].segment_id = last.seg.segment_id
       /\ tracks[i].segments[2].duration > 0
       /\ tracks[i].segments[1].duration > 0
       /\ tracks[i].segments[2].start + tracks[i].segments[2].duration
            = tracks[i].segments[1].start

\* ---------------------------------------------------------------------- C3
\* C3: duration is the largest end (start + duration) of the segments
\* inserted so far, 0 when there is none, and no call, failed or not,
\* lowers it.
C3_IsMaxEnd == duration = SetMax({s.start + s.duration : s \in AllSegments})

C3_Duration == []C3_IsMaxEnd /\ [][duration' >= duration]_vars

\* a segment was inserted that ends before the document does
C3_Witness ==
  /\ last.op \in InsertOps
  /\ last.err = "ok"
  /\ last.seg.start + last.seg.duration < duration

\* ---------------------------------------------------------------------- C5
\* C5: every segment on a track is of the class the track accepts, and an
\* insertion aimed at a track of another kind raises TypeError and changes
\* neither the tracks, the duration nor the registry.
C5_Homogeneous ==
  \A i \in DOMAIN tracks : \A k \in DOMAIN tracks[i].segments :
    tracks[i].segments[k].cls = accept_segment_type(tracks[i].track_type)

C5_Step ==
  (last'.op \in InsertOps /\ ReachesTrack(last')) =>
    \A i \in Targets(tracks, last'.seg.cls, last'.track_name) :
      accept_segment_type(tracks[i].track_type) # last'.seg.cls =>
        /\ last'.err = "TypeError"
        /\ tracks' = tracks
        /\ duration' = duration
        /\ materials' = materials

C5_KindChecked == []C5_Homogeneous /\ [][C5_Step]_vars

\* a video segment ending after the document's end was refused by a track
\* of another kind
C5_Witness ==
  /\ last.op = "add_segment"
  /\ last.err = "TypeError"
  /\ last.seg.cls = "Video_segment"
  /\ last.seg.start + last.seg.duration > duration
  /\ materials.videos = <<>>

\* ---------------------------------------------------------------------- C8
\* C8: an insertion that names a track uses the track of that name and
\* raises NameError when there is none; one that names no track succeeds
\* only if exactly one track accepts the segment's class, and raises
\* NameError when none or several do.
C8_Step ==
  last'.op \in InsertOps =>
    LET name == last'.track_name
        acc == {i \in DOMAIN tracks :
                  accept_segment_type(tracks[i].track_type) = last'.seg.cls}
        grown == {i \in DOMAIN tracks : tracks'[i] # tracks[i]}
    IN /\ Len(tracks') = Len(tracks)
       /\ (name # None /\ name[1] \notin TrackNames(tracks)) =>
            /\ last'.err = "NameError"
            /\ grown = {}
       /\ (name # None /\ name[1] \in TrackNames(tracks)) =>
            /\ last'.err # "NameError"
            /\ last'.err = "ok" => grown = {i \in DOMAIN tracks : tracks[i].name = name[1]}
            /\ last'.err # "ok" => grown = {}
       /\ name = None =>
            /\ last'.err = "ok" => (Cardinality(acc) = 1 /\ grown = acc)
            /\ Cardinality(acc) # 1 => (last'.err = "NameError" /\ grown = {})

C8_Resolution == [][C8_Step]_vars

\* a call naming no track was refused because two tracks accept the class
C8_Witness ==
  /\ last.op \in InsertOps
  /\ last.track_name = None
  /\ last.err = "NameError"
  /\ Cardinality({i \in DOMAIN tracks :
                    accept_segment_type(tracks[i].track_type) = last.seg.cls}) = 2

\* ---------------------------------------------------------------------- C6
\* C6 as stated: add_track without a name succeeds if and only if no track
\* of that kind exists yet.
C6_AsStated ==
  [][(last'.op = "add_track" /\ last'.track_name = None) =>
       (last'.err = "ok" <=> last'.track_type \notin TrackTypes(tracks))]_vars

\* C6, amended: add_track without a name succeeds if and only if no track of
\* that kind exists yet and no track bears the kind's own name (the name an
\* unnamed track gets); when it fails the tracks are unchanged; add_track
\* with a name no track bears succeeds whatever kinds exist, appending a new
\* track of the asked kind and leaving the others as they were.
C6_Step ==
  last'.op = "add_track" =>
    /\ last'.track_name = None =>
         (last'.err = "ok" <=> (/\ last'.track_type \notin TrackTypes(tracks)
                                /\ last'.track_type \notin TrackNames(tracks)))
    /\ last'.err # "ok" => tracks' = tracks
    /\ (last'.track_name # None /\ last'.track_name[1] \notin TrackNames(tracks)) =>
         /\ last'.err = "ok"
         /\ Len(tracks') = Len(tracks) + 1
         /\ SubSeq(tracks', 1, Len(tracks)) = tracks
         /\ tracks'[Len(tracks')].name = last'.track_name[1]
         /\ tracks'[Len(tracks')].track_type = last'.track_type

C6_UnnamedTrack == [][C6_Step]_vars

\* an unnamed add_track was refused although no track of its kind exists:
\* a track of another kind bears the kind's name
C6_Witness ==
  /\ last.op = "add_track"
  /\ last.track_name = None
  /\ last.err = "NameError"
  /\ last.track_type \notin TrackTypes(tracks)
  /\ last.track_type \in TrackNames(tracks)

\* ---------------------------------------------------------------------- C7
\* C7: no two tracks bear the same name, and add_track with a name some
\* track bears raises NameError and leaves every track (kind, render_index,
\* segments) as it was.
C7_Unique ==
  \A i, j \in DOMAIN tracks : i # j => tracks[i].name # tracks[j].name

C7_Step ==
  (/\ last'.op = "add_track"
   /\ (IF last'.track_name = None THEN last'.track_type ELSE last'.track_name[1])
        \in TrackNames(tracks)) =>
    /\ last'.err = "NameError"
    /\ tracks' = tracks

C7_NamesUnique == []C7_Unique /\ [][C7_Step]_vars

\* add_track was refused for a name borne by a track of another kind, with
\* another render_index, that holds a segment
C7_Witness ==
  /\ last.op = "add_track"
  /\ last.track_name # None
  /\ last.err = "NameError"
  /\ \E i \in DOMAIN tracks :
       /\ tracks[i].name = last.track_name[1]
       /\ tracks[i].track_type # last.track_type
       /\ tracks[i].segments # <<>>

\* ---------------------------------------------------------------------- C4
\* C4: add_material is idempotent: after add_material(m) the collection of
\* m's kind holds exactly one entry with m's material_id, and when an entry
\* with that id was already there the call changes nothing at all.
C4_Step ==
  last'.op = "add_material" =>
    /\ last'.err = "ok"
    /\ Count(Ids(materials', CollectionOf(last'.mat.cls)), last'.mat.material_id) = 1
    /\ Contains(materials, last'.mat.cls, last'.mat.material_id) =>
         UNCHANGED <<tracks, duration, materials, nextId>>

C4_Idempotent == [][C4_Step]_vars

\* add_material was called with an object whose material_id the registry
\* already held under another object: the second call of the claim
C4_Witness ==
  /\ last.op = "add_material"
  /\ \E k \in DOMAIN materials.videos :
       /\ materials.videos[k].material_id = last.mat.material_id
       /\ materials.videos[k] # last.mat

\* ---------------------------------------------------------------------- C9
\* the video and audio segments on the tracks
C9_Clips == {seg \in AllSegments : seg.cls \in {"Video_segment", "Audio_segment"}}

\* C9: after add_segment of a segment carrying a transition (an effect), the
\* registry holds that transition (effect) exactly once, however many
\* segments carry it; every add_segment of a video or audio segment appends
\* one record, the segment's, to speeds, so speeds has one record per video
\* or audio segment on the tracks.
C9_Step ==
  (last'.op = "add_segment" /\ last'.err = "ok"
     /\ last'.seg.cls \in {"Video_segment", "Audio_segment"}) =>
    /\ materials'.speeds = Append(materials.speeds, last'.seg.speed)
    /\ last'.seg.cls = "Video_segment" =>
         /\ last'.seg.transition # None =>
              Count(materials'.transitions, last'.seg.transition[1]) = 1
         /\ \A k \in DOMAIN last'.seg.effects :
              Count(materials'.video_effects, last'.seg.effects[k]) = 1
    /\ last'.seg.cls = "Audio_segment" =>
         \A k \in DOMAIN last'.seg.effects :
           Count(materials'.audio_effects, last'.seg.effects[k]) = 1

C9_SpeedPerClip ==
  /\ Len(materials.speeds) = Cardinality(C9_Clips)
  /\ NoDup(materials.speeds)

C9_SharedOnce == []C9_SpeedPerClip /\ [][C9_Step]_vars

\* two segments on the tracks carry one transition and one effect; the
\* registry holds each once and speeds holds two records
C9_Witness ==
  /\ last.op = "add_segment"
  /\ last.err = "ok"
  /\ last.seg.transition # None
  /\ last.seg.effects # <<>>
  /\ \E seg \in AllSegments :
       /\ seg.segment_id # last.seg.segment_id
       /\ seg.transition = last.seg.transition
       /\ seg.effects = last.seg.effects
  /\ Len(materials.transitions) = 1
  /\ Len(materials.video_effects) = 1
  /\ Len(materials.speeds) = 2

\* --------------------------------------------------------------------- C10
\* the collections C10 names, by the registry's names (the claim's
\* "filters/effects" is the filters collection, exported as "effects")
C10_Collections ==
  {"videos", "audios", "audio_effects", "audio_fades", "animations",
   "video_effects", "transitions", "filters", "masks", "canvases"}

\* C10 as stated: in every reachable state none of the deduplicated
\* collections, masks and canvases among them, holds two entries with the
\* same id.
C10_NoDuplicates ==
  \A coll \in C10_Collections : NoDup(Ids(materials, coll))

\* --------------------------------------------------------------------- C11
\* the attachments of segment seg the claim names, as (class, id) pairs
C11_Attached(seg) ==
  (IF seg.material_instance = None THEN {}
   ELSE {<<seg.material_instance[1].cls, seg.material_instance[1].material_id>>})
  \cup (IF seg.transition = None THEN {} ELSE {<<"Transition", seg.transition[1]>>})
  \cup (IF seg.animations_instance = None THEN {}
        ELSE {<<"Segment_animations", seg.animations_instance[1]>>})
  \cup (IF seg.fade = None THEN {} ELSE {<<"Audio_fade", seg.fade[1]>>})
  \cup {<<IF seg.cls = "Audio_segment" THEN "Audio_effect" ELSE "Video_effect",
          seg.effects[k]>> : k \in DOMAIN seg.effects}
  \cup {<<"Filter", seg.filters[k]>> : k \in DOMAIN seg.filters}

\* C11 as stated: in every reachable state every material, effect, filter,
\* transition, animation and fade attached to a video or audio segment that
\* is on a track has an entry in the registry.
C11_RegistryComplete ==
  \A seg \in AllSegments :
    seg.cls \in {"Video_segment", "Audio_segment"} =>
      \A a \in C11_Attached(seg) : Contains(materials, a[1], a[2])

\* --------------------------------------------------------------------- C12
\* C12: when add_track, add_segment, add_effect or add_filter raises, the
\* tracks with their segment lists, the duration and every registry
\* collection are what they were before the call.
C12_Step ==
  (last'.op \in {"add_track", "add_segment", "add_effect", "add_filter"}
     /\ last'.err # "ok") =>
    /\ tracks' = tracks
    /\ duration' = duration
    /\ materials' = materials

C12_NoPartialMutation == [][C12_Step]_vars

\* add_effect was refused for its parameters although its track was found,
\* the segment would have fitted on it and would have ended after the
\* document's end
C12_Witness ==
  /\ last.op = "add_effect"
  /\ last.err = "ValueError"
  /\ \E i \in Targets(tracks, "Effect_segment", last.track_name) :
       /\ tracks[i].track_type = "effect"
       /\ ~Collides(last.seg, tracks[i].segments)
  /\ last.seg.start + last.seg.duration > duration

\* --------------------------------------------------------------------- C13
\* C13 as stated: an import_srt that fails leaves no track it created, no
\* segment of the file and the duration it found.
C13_AllOrNothing ==
  [][(last'.op = "import_srt" /\ last'.err # "ok") =>
       (tracks' = tracks /\ duration' = duration)]_vars

\* --------------------------------------------------------------------- C14
\* an SRT timestamp in microseconds
Micro(t) == (t.h * 3600 + t.m * 60 + t.s) * 1000000 + t.ms * 1000

\* the first position at or after i of lines that holds no words
RECURSIVE WordsEnd(_, _)
WordsEnd(lines, i) ==
  IF i <= Len(lines) /\ lines[i].k = "words" THEN WordsEnd(lines, i + 1) ELSE i

\* lines from position i on read as well-formed cues (index line, timestamp
\* line, one or more lines of words, blank line): whether they are, and the
\* (start, end) pairs in microseconds
RECURSIVE WellFormed(_, _)
WellFormed(lines, i) ==
  IF i > Len(lines) THEN [ok |-> TRUE, cues |-> <<>>]
  ELSE IF /\ i + 3 <= Len(lines)
          /\ lines[i].k = "digits"
          /\ lines[i + 1].k = "ts"
          /\ lines[i + 2].k = "words"
          /\ WordsEnd(lines, i + 2) <= Len(lines)
          /\ lines[WordsEnd(lines, i + 2)].k = "blank"
    THEN LET rest == WellFormed(lines, WordsEnd(lines, i + 2) + 1)
         IN [ok |-> rest.ok,
             cues |-> <<<<Micro(lines[i + 1].s), Micro(lines[i + 1].e)>>>> \o rest.cues]
  ELSE [ok |-> FALSE, cues |-> <<>>]

\* the segments of the track named name, none when there is no such track
SegmentsOf(trs, name) ==
  IF name \in TrackNames(trs) THEN trs[TrackIndex(trs, name)].segments ELSE <<>>

\* the call is one import_srt accepts before it reads the file: the file
\* opens, a style is given, and the named track is a text track or absent
ImportAccepted(c) ==
  /\ c.op = "import_srt"
  /\ c.file # None
  /\ ~(c.style_reference = None /\ c.clip_settings = None)
  /\ c.track_name \in TrackNames(tracks) =>
       tracks[TrackIndex(tracks, c.track_name)].track_type = "text"

\* C14: for a well-formed file of N cues that overlap neither each other nor
\* a segment already on the track, an offset t and a call import_srt
\* accepts, import_srt returns and appends exactly N Text_segments to the
\* named track, in file order, the i-th with target_timerange
\* (start_i + t, end_i - start_i).
C14_Step ==
  ImportAccepted(last') =>
    LET w == WellFormed(last'.file[1], 1)
        old == SegmentsOf(tracks, last'.track_name)
        new == SegmentsOf(tracks', last'.track_name)
    IN (w.ok /\ Admitted(w.cues, last'.time_offset, old) = DOMAIN w.cues) =>
         /\ last'.err = "ok"
         /\ Len(new) = Len(old) + Len(w.cues)
         /\ SubSeq(new, 1, Len(old)) = old
         /\ \A j \in DOMAIN w.cues :
              /\ new[Len(old) + j].cls = "Text_segment"
              /\ new[Len(old) + j].start = w.cues[j][1] + last'.time_offset
              /\ new[Len(old) + j].duration = w.cues[j][2] - w.cues[j][1]

C14_CuesImported == [][C14_Step]_vars

\* the example of the specification: cues 1.000 s - 2.000 s and
\* 3.000 s - 4.500 s with offset 0 are on the track as (1000000, 1000000)
\* and (3000000, 1500000)
C14_Witness ==
  /\ last.op = "import_srt"
  /\ last.err = "ok"
  /\ last.file = Some(ExampleFile)
  /\ last.time_offset = 0
  /\ Ranges(SegmentsOf(tracks, last.track_name))
       = <<<<1000000, 1000000>>, <<3000000, 1500000>>>>

\* --------------------------------------------------------------------- C15
\* the number of cues of lines that reach the content state when the reader
\* is at position i in state st and no line is refused
RECURSIVE CuesRead(_, _, _)
CuesRead(lines, i, st) ==
  IF i > Len(lines) THEN 0
  ELSE CASE st = "index" ->
              IF lines[i].k = "blank" THEN CuesRead(lines, i + 1, "index")
              ELSE CuesRead(lines, i + 1, "timestamp")
         [] st = "timestamp" -> 1 + CuesRead(lines, i + 1, "content")
         [] st = "content" ->
              IF lines[i].k = "blank" THEN CuesRead(lines, i + 1, "index")
              ELSE CuesRead(lines, i + 1, "content")

\* C15 as stated: an import_srt that returns has put on the track one
\* Text_segment for every cue that reached the content state, whether a
\* blank line or the end of the file ended it.
C15_EveryCueEmitted ==
  [][(ImportAccepted(last') /\ last'.err = "ok") =>
       Len(SegmentsOf(tracks', last'.track_name))
         = Len(SegmentsOf(tracks, last'.track_name))
             + CuesRead(last'.file[1], 1, "index")]_vars

\* --------------------------------------------------------------------- C17
\* the call passes the style check of import_srt
StyleGiven(c) ==
  c.op = "import_srt" /\ ~(c.style_reference = None /\ c.clip_settings = None)

\* import_srt left the list of tracks as long as it was when the name was
\* there, and one text track of that name longer when it was not
C17_TrackCreated ==
  IF last'.track_name \in TrackNames(tracks) THEN Len(tracks') = Len(tracks)
  ELSE /\ Len(tracks') = Len(tracks) + 1
       /\ SubSeq(tracks', 1, Len(tracks)) = tracks
       /\ tracks'[Len(tracks')].track_type = "text"
       /\ tracks'[Len(tracks')].name = last'.track_name

\* C17 as stated: the text track import_srt creates for an absent
\* track_name has a render_index greater than that of every text track
\* already in the Document; when the name exists no track is created.
C17_Topmost ==
  [][StyleGiven(last') =>
       /\ C17_TrackCreated
       /\ last'.track_name \notin TrackNames(tracks) =>
            \A i \in DOMAIN tracks :
              tracks[i].track_type = "text" =>
                tracks'[Len(tracks')].render_index > tracks[i].render_index]_vars

\* --------------------------------------------------------------------- C16
\* C16: import_srt with style_reference = None and clip_settings = None
\* raises ValueError and changes nothing: no track, no segment, and the file
\* is not looked at (the outcome is the same for an unreadable file).
C16_Step ==
  (last'.op = "import_srt" /\ last'.style_reference = None
     /\ last'.clip_settings = None) =>
    /\ last'.err = "ValueError"
    /\ UNCHANGED <<tracks, duration, materials, nextId>>

C16_StyleRequired == [][C16_Step]_vars

\* the call was refused although its track did not exist and its file held
\* a cue
C16_Witness ==
  /\ last.op = "import_srt"
  /\ last.style_reference = None
  /\ last.clip_settings = None
  /\ last.err = "ValueError"
  /\ last.file # None
  /\ last.track_name \notin TrackNames(tracks)

\* --------------------------------------------------------------------- C18
\* the segments import_srt added to the track it names
Imported ==
  LET old == SegmentsOf(tracks, last'.track_name)
      new == SegmentsOf(tracks', last'.track_name)
  IN {new[k] : k \in (Len(old) + 1)..Len(new)}

\* C18 as stated, the default of clip_settings read as "not supplied": with
\* a style_reference the imported segments keep the reference's
\* clip_settings unless the call supplied its own.
C18_AsStated ==
  [][(StyleGiven(last') /\ last'.style_reference # None) =>
       \A seg \in Imported :
         /\ seg.style = last'.style_reference[1].style
         /\ seg.clip_settings =
              IF last'.clip_settings \in {None, DefaultClipSettings}
                THEN last'.style_reference[1].clip_settings
              ELSE last'.clip_settings]_vars

\* C18: with a style_reference every imported segment takes the reference's
\* style, and takes the call's clip_settings, which is the default
\* Clip_settings(transform_y=-0.8) when the caller leaves it out; it keeps
\* the reference's clip_settings only when the call passes
\* clip_settings=None.  Without a reference the text_style and
\* clip_settings of the call (or their defaults) are the segment's.
C18_Step ==
  StyleGiven(last') =>
    \A seg \in Imported :
      IF last'.style_reference # None
        THEN /\ seg.style = last'.style_reference[1].style
             /\ seg.clip_settings =
                  IF last'.clip_settings = None
                    THEN last'.style_reference[1].clip_settings
                  ELSE last'.clip_settings
      ELSE /\ seg.style = Some(last'.text_style)
           /\ seg.clip_settings = last'.clip_settings

C18_StylePrecedence == [][C18_Step]_vars

\* a cue was imported with a reference and clip_settings left out, and its
\* segment has the reference's style and the default clip_settings
C18_Witness ==
  /\ last.op = "import_srt"
  /\ last.err = "ok"
  /\ last.style_reference = Some(Reference)
  /\ last.clip_settings = DefaultClipSettings
  /\ \E seg \in {SegmentsOf(tracks, last.track_name)[k] :
                   k \in DOMAIN SegmentsOf(tracks, last.track_name)} :
       /\ seg.style = Reference.style
       /\ seg.clip_settings = DefaultClipSettings
       /\ seg.clip_settings # Reference.clip_settings

\* --------------------------------------------------------------------- C19
\* the Text_segments on the text tracks of the Document
TextSegments ==
  {seg \in AllSegments :
     /\ seg.cls = "Text_segment"
     /\ \E i \in DOMAIN tracks :
          /\ tracks[i].track_type = "text"
          /\ \E k \in DOMAIN tracks[i].segments : tracks[i].segments[k] = seg}

\* C19: after every export the texts collection of the registry, and the
\* texts that were exported, hold one record per Text_segment now on a text
\* track and nothing else, so as many records as there are such segments,
\* however many exports went before.
C19_TextsRebuilt ==
  last.op = "dumps" =>
    /\ last.content.texts = materials.texts
    /\ Len(materials.texts) = Cardinality(TextSegments)
    /\ {materials.texts[k] : k \in DOMAIN materials.texts}
         = {[id |-> Uuid("text_material", seg.segment_id[2]), text |-> seg.text,
             style |-> seg.style] : seg \in TextSegments}

\* the export ran on a registry that held the record of an earlier export,
\* with a Text_segment added since
C19_Witness ==
  /\ last.op = "dumps"
  /\ last.stale = 1
  /\ Len(materials.texts) = 2
  /\ Cardinality(TextSegments) = 2

\* --------------------------------------------------------------------- C20
\* C20: the exported tracks array holds every track of the Document exactly
\* once, in ascending order of render_index, tracks of equal render_index in
\* the order in which they were created.
C20_TracksSorted ==
  last.op = "dumps" =>
    LET out == last.content.tracks IN
    /\ Len(out) = Len(tracks)
    /\ \A i \in DOMAIN tracks :
         Cardinality({k \in DOMAIN out : out[k] = Track_export_json(tracks[i])}) = 1
    /\ \A j, k \in DOMAIN out :
         j < k =>
           /\ out[j].render_index[1] <= out[k].render_index[1]
           /\ out[j].render_index = out[k].render_index =>
                TrackIndex(tracks, out[j].extra_info.name[1])
                  < TrackIndex(tracks, out[k].extra_info.name[1])

\* three tracks were exported in another order than they were created, two
\* of them with the same render_index
C20_Witness ==
  /\ last.op = "dumps"
  /\ Len(tracks) = 3
  /\ last.content.tracks # [k \in DOMAIN tracks |-> Track_export_json(tracks[k])]
  /\ \E j, k \in DOMAIN tracks :
       j # k /\ tracks[j].render_index = tracks[k].render_index

\* --------------------------------------------------------------------- C21
\* the keys of the materials object the engine never fills
UnfilledKeys ==
  {"ai_translates", "audio_balances", "audio_track_indexes", "beats",
   "chromas", "color_curves", "digital_humans", "drafts",
   "flowers", "green_screens", "handwrites", "hsl",
   "images", "log_color_wheels", "loudnesses", "manual_deformations",
   "material_colors", "multi_language_refs", "placeholders", "plugin_effects",
   "primary_color_wheels", "realtime_denoises", "shapes", "smart_crops",
   "smart_relights", "sound_channel_mappings", "tail_leaders", "text_templates",
   "time_marks", "video_trackings", "vocal_beautifys", "vocal_separations"}

\* the keys of the materials object the engine fills from its collections
FilledKeys ==
  {"audio_effects", "audio_fades", "audios", "canvases", "effects", "masks",
   "material_animations", "speeds", "stickers", "texts", "transitions",
   "video_effects", "videos"}

\* C21: in every state of the Document the exported materials object has
\* the same 45 keys, and the keys the engine does not fill hold an empty
\* array.
C21_FixedKeys ==
  LET out == dumps(Doc).content.materials IN
  /\ DOMAIN out = FilledKeys \cup UnfilledKeys
  /\ FilledKeys \cap UnfilledKeys = {}
  /\ Cardinality(DOMAIN out) = 45
  /\ \A k \in UnfilledKeys : out[k] = <<>>

\* an export of a Document with several collections filled
C21_Witness ==
  LET out == dumps(Doc).content.materials IN
  /\ out.videos # <<>>
  /\ out.masks # <<>>
  /\ out.transitions # <<>>
  /\ out.speeds # <<>>

\* --------------------------------------------------------------------- C22
\* the material ids of a list of segments, None where a segment has none
MaterialIds(segs) ==
  [k \in DOMAIN segs |->
     IF segs[k].material_instance = None THEN None
     ELSE Some(segs[k].material_instance[1].material_id)]

\* track t of one Document is in list trs of another: same name, kind and
\* render_index, as many segments, with the same timeranges and material ids
SameTrackIn(t, trs) ==
  \E j \in DOMAIN trs :
    /\ trs[j].name = t.name
    /\ trs[j].track_type = t.track_type
    /\ trs[j].render_index = t.render_index
    /\ Len(trs[j].segments) = Len(t.segments)
    /\ Ranges(trs[j].segments) = Ranges(t.segments)
    /\ MaterialIds(trs[j].segments) = MaterialIds(t.segments)

\* the Document read back from its own export has the tracks of the
\* original
RoundTrip ==
  /\ last'.err = "ok"
  /\ Len(tracks') = Len(tracks)
  /\ \A i \in DOMAIN tracks : SameTrackIn(tracks[i], tracks')

\* C22 as stated: with every media file on disk, from_dict(export()) of any
\* Document has the same tracks, as many segments on each, the same target
\* timeranges and the same material ids.
C22_RoundTrip ==
  [][(last'.op = "reopen" /\ last'.exists = MediaPaths) => RoundTrip]_vars

\* --------------------------------------------------------------------- C23
\* the ends of the segments on tracks trs
EndsIn(trs) ==
  UNION {{SegEnd(trs[i].segments[k]) : k \in DOMAIN trs[i].segments} : i \in DOMAIN trs}

\* every segment of tracks trs in one list, track after track
RECURSIVE Flatten(_)
Flatten(trs) == IF trs = <<>> THEN <<>> ELSE Head(trs).segments \o Flatten(Tail(trs))

\* the registry a fresh Document has after add_segment for each segment of
\* segs in turn
RECURSIVE Registered(_, _)
Registered(m, segs) ==
  IF segs = <<>> THEN m
  ELSE LET seg == Head(segs)
           m1 == RegisterAttachments(m, seg)
           m2 == IF seg.material_instance # None
                      /\ ~\E k \in DOMAIN m1.videos :
                            m1.videos[k].material_id = seg.material_instance[1].material_id
                   THEN [m1 EXCEPT !.videos = Append(@, seg.material_instance[1])]
                 ELSE m1
       IN Registered(m2, Tail(segs))

\* the registry of the Document from_dict returned is the registry of the
\* replay of the segments it holds
C23_Registry == materials' = Registered(Script_material, Flatten(tracks'))

\* C23 as stated: the Document from_dict returns has as duration the
\* maximum end over the segments it contains and as registry what
\* add_segment registers for them, also when persisted segments were
\* skipped.
C23_AsFresh ==
  [][(last'.op \in {"reopen", "from_dict"} /\ last'.err = "ok") =>
       /\ duration' = SetMax(EndsIn(tracks'))
       /\ C23_Registry]_vars

\* --------------------------------------------------------------------- C24
\* the first track of payload data listed under name
FirstListing(data, name) ==
  data.tracks[CHOOSE i \in DOMAIN data.tracks :
                /\ data.tracks[i].extra_info.name = Some(name)
                /\ \A j \in 1..(i - 1) : data.tracks[j].extra_info.name # Some(name)]

\* the names payload data lists
ListedNames(data) == {data.tracks[i].extra_info.name[1] : i \in DOMAIN data.tracks}

\* C24: from_dict never fails on a track: a name listed twice raises no
\* NameError (the call fails only when add_segment refuses a segment).  The
\* Document it returns has one track per listed name, of the kind and with
\* the render_index stored in the first listing of the name, also for names
\* none of whose segments were reinserted.
C24_Step ==
  last'.op \in {"reopen", "from_dict"} =>
    /\ last'.err \in {"ok", "SegmentOverlap"}
    /\ last'.err = "ok" =>
         /\ Len(tracks') = Cardinality(ListedNames(last'.data))
         /\ TrackNames(tracks') = ListedNames(last'.data)
         /\ \A i \in DOMAIN tracks' :
              LET td == FirstListing(last'.data, tracks'[i].name) IN
              /\ tracks'[i].track_type = td.type
              /\ Some(tracks'[i].render_index) = td.render_index

Rebuildable(sd, data, exists) ==
  /\ sd.type = "video"
  /\ \E k \in DOMAIN data.materials.videos :
       /\ Some(data.materials.videos[k].id) = sd.material_id
       /\ data.materials.videos[k].path \in exists

\* the rebuildable segments payload data lists under name, in payload order
RECURSIVE KeptOf(_, _, _, _)
KeptOf(trs, name, data, exists) ==
  IF trs = <<>> THEN <<>>
  ELSE (IF Head(trs).extra_info.name = Some(name)
          THEN SelectSeq(Head(trs).segments, LAMBDA sd : Rebuildable(sd, data, exists))
        ELSE <<>>) \o KeptOf(Tail(trs), name, data, exists)

\* two of the persisted segments of list sds collide
CollideIn(sds) ==
  \E j, k \in DOMAIN sds :
    /\ j # k
    /\ sds[j].target_timerange.start
         < sds[k].target_timerange.start + sds[k].target_timerange.duration
    /\ sds[k].target_timerange.start
         < sds[j].target_timerange.start + sds[j].target_timerange.duration

\* C25: from_dict passes over a video segment whose media file is not on
\* disk or whose material id is in no video record, and raises nothing for
\* it: unless rebuildable segments collide the call returns, every track
\* holds exactly the rebuildable segments listed under its name, in order,
\* and the registry holds the video materials of those segments only.
C25_Step ==
  last'.op \in {"reopen", "from_dict"} =>
    LET data == last'.data
        kept(name) == KeptOf(data.tracks, name, data, last'.exists)
    IN /\ last'.err # "ok" => \E name \in ListedNames(data) : CollideIn(kept(name))
       /\ last'.err = "ok" =>
            /\ \A i \in DOMAIN tracks' :
                 /\ Ranges(tracks'[i].segments)
                      = [k \in DOMAIN kept(tracks'[i].name) |->
                           <<kept(tracks'[i].name)[k].target_timerange.start,
                             kept(tracks'[i].name)[k].target_timerange.duration>>]
                 /\ MaterialIds(tracks'[i].segments)
                      = [k \in DOMAIN kept(tracks'[i].name) |->
                           kept(tracks'[i].name)[k].material_id]
            /\ {materials'.videos[k].material_id : k \in DOMAIN materials'.videos}
                 = UNION {{kept(name)[k].material_id[1] : k \in DOMAIN kept(name)} :
                            name \in ListedNames(data)}

C27_Step ==
  (last'.op = "add_track" /\ last'.err = "ok") =>
    /\ Len(tracks') = Len(tracks) + 1
    /\ tracks'[Len(tracks')].render_index =
         IF last'.absolute_index = None
           THEN base_render_index(last'.track_type) + last'.relative_index
         ELSE last'.absolute_index[1]
    /\ \A i \in DOMAIN tracks :
         /\ tracks'[i].name = tracks[i].name
         /\ tracks'[i].render_index = tracks[i].render_index

C27_RenderIndex == [][C27_Step]_vars

\* a text track was created with relative_index 1 and absolute_index 7 and
\* is at 7, beside a track that is where it was
C27_Witness ==
  /\ last.op = "add_track"
  /\ last.err = "ok"
  /\ last.track_type = "text"
  /\ last.relative_index = 1
  /\ last.absolute_index = Some(7)
  /\ Len(tracks) = 2
  /\ tracks[2].render_index = 7
  /\ tracks[1].render_index = base_render_index(tracks[1].track_type) + 1

\* --------------------------------------------------------------------- C28
\* the values stored by the filters of the segments of track t, segment by
\* segment
FilterValues(t) ==
  [k \in DOMAIN t.segments |->
     [j \in DOMAIN t.segments[k].filters |-> t.segments[k].filters[j][3]]]

\* C28: add_filter with a whole intensity i from 0 to 100 puts a
\* Filter_segment on the track whose filter stores i hundredths (i / 100),
\* and a Document read back by from_dict has on every rebuilt video segment
\* filters that store the values the export held, the value v having been
\* applied again as intensity v * 100; so 50 is stored as 0.5 and comes back
\* as 50.
C28_Step ==
  /\ (last'.op = "add_filter" /\ last'.err = "ok") =>
       LET t == tracks'[TrackIndex(tracks', last'.track_name[1])]
       IN /\ t.segments[Len(t.segments)].cls = "Filter_segment"
          /\ t.segments[Len(t.segments)].material[1][3]
               = [hundredths |-> last'.intensity.whole]
  /\ (last'.op = "reopen" /\ last'.err = "ok") =>
       \A i \in DOMAIN tracks :
         tracks[i].track_type = "video" =>
           \E j \in DOMAIN tracks' :
             /\ tracks'[j].name = tracks[i].name
             /\ FilterValues(tracks'[j]) = FilterValues(tracks[i])

FilesOf(s) == {f \in DOMAIN files : files[f].session_id = s}

\* C30: the document get_script_file has looked up for a call of session s
\* holds every track that was added to a document of s through earlier
\* calls: the cache never hands out a new, empty document for a session that
\* has one.
C30_SameDraft ==
  \A c \in Callers :
    requests[c].pc = "syncing" =>
      \A g \in FilesOf(requests[c].session_id) :
        TrackNames(files[g].d.tracks) \subseteq TrackNames(files[requests[c].file].d.tracks)

\* ---------------------------------------------------------------- C29
\* the callers inside the locked section of get_script_file for session s
Inside(s) ==
  {c \in Callers : requests[c].pc \in {"syncing", "analysing"}
                     /\ requests[c].session_id = s}

\* C29: whatever the interleaving of get_script_file and remove_script_file
\* calls, at most one caller is inside the locked section of get_script_file
\* for a session, and the callers of a session all use one lock.
C29_OneInside ==
  \A s \in Sessions :
    /\ Cardinality(Inside(s)) <= 1
    /\ \A c1, c2 \in Callers :
         (requests[c1].session_id = s /\ requests[c2].session_id = s
            /\ requests[c1].pc \in {"waiting", "syncing", "analysing"}
            /\ requests[c2].pc \in {"waiting", "syncing", "analysing"}) =>
           requests[c1].lock = requests[c2].lock

\* ---------------------------------------------------------------- C26
\* caller o has obtained its document and has not finished: its handler is
\* at an await
Working(o) ==
  requests[o].pc \in {"packing", "uploading", "naming", "downloading", "committed"}

\* this step is caller c changing its document (a track or a material is
\* added) or dumping it (save_draft)
Writes(c) ==
  /\ requests'[c] # requests[c]
  /\ requests[c].file \in DOMAIN files
  /\ \/ files'[requests[c].file] # files[requests[c].file]
     \/ requests[c].handler = "save_draft" /\ requests'[c].pc = "packing"

\* C26: no handler changes or dumps a document while another handler that
\* obtained the same document (save_draft included) has not finished its
\* work.
C26_Step ==
  \A c \in Callers : \A o \in Callers \ {c} :
    ~(Writes(c) /\ Working(o) /\ requests[o].file = requests[c].file)

C26_Serialized == [][C26_Step]_vars

\* ---------------------------------------------------------------- C39
\* the registry collections dumps does not rebuild
KeptCollections == DOMAIN Script_material \ {"texts"}

\* C39: dumps leaves the tracks with their segments, the duration and every
\* registry collection other than texts as they were, and a second dumps
\* with no call in between returns the same output and changes nothing.
C39_Step ==
  last'.op = "dumps" =>
    /\ tracks' = tracks
    /\ duration' = duration
    /\ \A k \in KeptCollections : materials'[k] = materials[k]
    /\ dumps(Doc').content = last'.content
    /\ dumps(Doc').d = Doc'

C39_Repeatable == [][C39_Step]_vars

\* an export that rebuilt the texts and sorted tracks created out of order
C39_Witness ==
  /\ last.op = "dumps"
  /\ last.stale # Len(materials.texts)
  /\ \E j, k \in DOMAIN tracks : j < k /\ tracks[j].render_index > tracks[k].render_index

\* ---------------------------------------------------------------- C40
\* how many of the document's videos and audios carry material_id id
Copies(d, id) ==
  Cardinality({i \in DOMAIN d.materials.videos : d.materials.videos[i].material_id = id})
    + Cardinality({i \in DOMAIN d.materials.audios : d.materials.audios[i].material_id = id})

\* list a is the beginning of list b
StartsWith(b, a) == Len(a) <= Len(b) /\ SubSeq(b, 1, Len(a)) = a

\* caller c runs a step of get_script_file's sync
Syncs(c) ==
  requests[c].pc \in {"syncing", "analysing"} /\ requests'[c] # requests[c]

\* C40: whatever the interleaving of get_script_file calls and add_material
\* calls of the upload handler, every material_id of the table is held at
\* most once by a document, across videos and audios, and a sync leaves the
\* materials a document holds as they are, adding after them.
C40_Step ==
  /\ \A f \in DOMAIN files' : \A k \in DOMAIN db' :
       Copies(files'[f].d, db'[k].material_id) <= 1
  /\ \A c \in Callers :
       Syncs(c) =>
         /\ StartsWith(files'[requests[c].file].d.materials.videos,
                       files[requests[c].file].d.materials.videos)
         /\ StartsWith(files'[requests[c].file].d.materials.audios,
                       files[requests[c].file].d.materials.audios)

C40_NoDuplicate == [][C40_Step]_vars

\* a sync is about to add a material that the upload handler has added to
\* the document while the sync awaited the analysis
C40_Witness ==
  \E c \in Callers :
    /\ requests[c].pc = "analysing"
    /\ requests[c].todo \cap existing_material_ids(files[requests[c].file].d) # {}

\* ---------------------------------------------------------------- C32
\* C32: whatever the load levels met by adjust_concurrency, the limit stays
\* in the configured range: min_concurrent_tasks <= max_concurrent_tasks <=
\* max_concurrent_limit.
C32_InRange ==
  /\ queue.min_concurrent_tasks <= queue.max_concurrent_tasks
  /\ queue.max_concurrent_tasks <= queue.max_concurrent_limit

\* ---------------------------------------------------------------- C33
\* this step admits the request of caller c: acquire_task_slot returns True
Admits(c) == dispatches[c].acquired = 0 /\ dispatches'[c].acquired = 1

\* C33: acquire_task_slot admits a request only while fewer requests hold a
\* slot than the limit allows: the count before the admission is below the
\* limit the call has just adjusted.
C33_Step ==
  \A c \in Callers :
    Admits(c) => queue.active_tasks_count < queue'.max_concurrent_tasks

C33_LimitEnforced == [][C33_Step]_vars

\* ---------------------------------------------------------------- C34
\* the requests that hold a slot
Holders == {c \in Callers : dispatches[c].acquired = 1 /\ dispatches[c].released = 0}

\* C34: a resource intensive request runs the handler holding one slot and
\* gives it back once when the handler returns or raises; a request refused
\* by acquire_task_slot is answered 429 without running the handler and
\* without releasing; so the semaphore and the counter account for the
\* holders, and with no request in dispatch all slots are back and the
\* counter is 0.
C34_SlotsBalanced ==
  /\ \A c \in Callers :
       LET rq == dispatches[c]
       IN /\ rq.pc = "handling" =>
               rq.ran /\ rq.released = 0
                 /\ rq.acquired = (IF rq.intensive THEN 1 ELSE 0)
          /\ rq.pc = "waiting" => ~rq.ran /\ rq.acquired = 0 /\ rq.released = 0
          /\ rq.pc = "done" =>
               /\ rq.released = rq.acquired
               /\ rq.ran = (rq.response # "429")
               /\ (rq.intensive /\ rq.ran) = (rq.acquired = 1)
  /\ queue.semaphore + Cardinality(Holders) = settings.QUEUE_INITIAL_CONCURRENT_TASKS
  /\ queue.active_tasks_count = Cardinality(Holders)

\* both callers are through: one was refused after waiting for the slot the
\* other held, the other's handler raised
C34_Witness ==
  /\ \A c \in Callers : dispatches[c].pc = "done" /\ dispatches[c].intensive
  /\ \E c \in Callers : dispatches[c].response = "429"
  /\ \E c \in Callers : dispatches[c].response = "raised"
  /\ queue.semaphore = settings.QUEUE_INITIAL_CONCURRENT_TASKS
  /\ queue.active_tasks_count = 0

\* ---------------------------------------------------------------- C35
\* this step ends the save_draft request of caller c
Saved(c) == requests[c].pc = "uploading" /\ requests'[c].pc = "idle"

\* C35: save_draft answers "success" only with the zip of the session in
\* the bucket, and when it answers an error the session directory is left
\* on disk.
C35_Step ==
  \A c \in Callers :
    Saved(c) =>
      IF requests'[c].response = "success"
        THEN requests[c].session_id \in bucket'
      ELSE dirs' = dirs

C35_SavedMeansUploaded == [][C35_Step]_vars

\* ---------------------------------------------------------------- C36
\* C36: a session stays active, with the directory it has, until its
\* expire_at; a row changes only from 'active' to 'expired'.
C36_Step ==
  \A s \in Sessions :
    (sessions[s] # NoSession /\ sessions'[s] # sessions[s]) =>
      /\ sessions[s].status = "active"
      /\ sessions'[s] = [sessions[s] EXCEPT !.status = "expired"]
      /\ now >= sessions[s].expire_at

C36_UsableUntilExpiry == [][C36_Step]_vars

\* ---------------------------------------------------------------- C37
\* the requests that have reached get_script_file
Serving == {c \in Callers : requests[c].pc \notin {"idle", "arrived"}}

\* C37: a request whose session row is missing or not 'active' is answered
\* 404 or 400 with no lock, cache entry or document made or changed; only
\* requests that read 'active' reach get_script_file; a row marked
\* 'expired' stays so, and a request arriving then reads it as it is.
C37_Step ==
  /\ \A c \in Callers :
       /\ (requests[c].pc = "arrived" /\ requests[c].status # "active"
             /\ requests'[c] # requests[c]) =>
            /\ requests'[c].pc = "idle"
            /\ requests'[c].response =
                 (IF requests[c].status = "none" THEN "404" ELSE "400")
            /\ UNCHANGED <<cache, locks, owners, files>>
       /\ (requests[c].pc = "idle" /\ requests'[c].pc = "arrived") =>
            requests'[c].status = sessions[requests'[c].session_id].status
       /\ c \in Serving' => requests'[c].status = "active"
  /\ \A s \in Sessions :
       sessions[s].status = "expired" => sessions'[s].status = "expired"

C37_ExpiredRejected == [][C37_Step]_vars

\* a request for the expired session has been answered 400 while the cache
\* still holds the session's document
C37_Witness ==
  /\ sessions[1].status = "expired"
  /\ cache_index(cache, 1) # {}
  /\ \E c \in Callers : requests[c].pc = "idle" /\ requests[c].response = "400"

\* ---------------------------------------------------------------- C38
\* C38: the directory get_session_dir returns for a session exists on
\* disk, whatever save_draft and the cleanup have deleted before.
C38_DirExists ==
  \A s \in Sessions : s \in get_session_dir(Disk, s).dirs

\* ---------------------------------------------------------------- C31
\* the uploads that hold a generated name with no row of their own yet
Named == {c \in Callers : requests[c].pc = "downloading"}

\* C31: a material being added holds a jy_name that no row of its session
\* has and that no other material being added to the session holds.
C31_DistinctNames ==
  \A c \in Named :
    /\ SameName(c) = {}
    /\ \A o \in Named \ {c} :
         requests[o].session_id = requests[c].session_id =>
           requests[o].jy_name # requests[c].jy_name
====
